---------------------------- MODULE Spec2Model ----------------------------
(***************************************************************************)
(* Verification model of the NBA injury-report dashboard                   *)
(* (src/injury_report_dashboard.py).                                       *)
(*                                                                         *)
(* Part I   the cache controller: get_cached_report, the scheduler loop    *)
(*          and the CACHE_LOCK / CACHE_STATE pair they share.              *)
(* Part II  text as token sequences, and the regular expressions of the    *)
(*          reconciler and the deduplicator over them.                     *)
(* Part III deduplicate_rows.                                              *)
(* Part IV  normalize_rows.                                                *)
(* Part V   the link functions: file-name parsing and prefer_link.         *)
(* Part VI  the fetcher: the retry loops and fetch_injury_report.          *)
(***************************************************************************)
EXTENDS Integers, Sequences, FiniteSets, TLC

VARIABLES
    now,          \* the wall clock read by time.time(), in seconds
    CACHE_STATE,  \* [data, last_updated], the process-wide slot
    CACHE_LOCK,   \* "free" or the thread inside a `with CACHE_LOCK` block
    pc,           \* per thread: its position inside get_cached_report
    frame,        \* per thread: the locals of its get_cached_report call
    sched,        \* the scheduler thread's loop: [pc, wake_at]
    stamp,        \* history: which write last set each field of the slot
    dd,           \* deduplicate_rows: [rows, out, again, ran]
    nz,           \* normalize_rows: [st, n, last, hist] after the rows read so far
    px,           \* the pure functions: the last call, its arguments and result
    net           \* the fetcher: the run in progress and the requests it sent

vars == <<now, CACHE_STATE, CACHE_LOCK, pc, frame, sched, stamp, dd, nz, px, net>>

cacheVars == <<now, CACHE_STATE, CACHE_LOCK, pc, frame, sched, stamp>>

(***************************************************************************)
(* Part I.  Cache controller                                               *)
(***************************************************************************)

\* CACHE_TTL_SECONDS = 3600
CACHE_TTL_SECONDS == 3600

\* The clock starts at BootTime and advances TickSeconds at a time, MaxTicks times.
BootTime == 7200
TickSeconds == 1800
MaxTicks == 3

ClockEnd == BootTime + MaxTicks * TickSeconds

RequestThreads == {"req1"}
SchedulerThread == "sched"
Threads == RequestThreads \cup {SchedulerThread}

---------------------------------------------------------------------------
\* Document URLs.  A URL is its host and the parts of its file name that the
\* filename convention Injury-Report_<date>_<time><AM|PM>.pdf reads.

NoUrl == [conv |-> FALSE, date |-> <<0, 0, 0>>, digits |-> <<>>, mer |-> "", host |-> ""]

UrlOf(date, digits, mer, host) ==
    [conv |-> TRUE, date |-> date, digits |-> digits, mer |-> mer, host |-> host]

RECURSIVE DigitsToInt(_)
DigitsToInt(ds) ==
    IF ds = <<>> THEN 0
    ELSE 10 * DigitsToInt(SubSeq(ds, 1, Len(ds) - 1)) + ds[Len(ds)]

NoParts == [ok |-> FALSE, date |-> <<0, 0, 0>>, hour |-> 0, minutes |-> 0, mer |-> ""]

\* parse_pdf_time_parts: None unless the name matches, has digits, and the hour
\* is in 1..12 and the minutes in 0..59.
parse_pdf_time_parts_unchecked(url) ==
    IF ~url.conv \/ url.digits = <<>> THEN NoParts
    ELSE LET n == Len(url.digits)
             hour == IF n <= 2 THEN DigitsToInt(url.digits)
                     ELSE DigitsToInt(SubSeq(url.digits, 1, n - 2))
             minutes == IF n <= 2 THEN 0
                        ELSE DigitsToInt(SubSeq(url.digits, n - 1, n))
         IN  [ok |-> TRUE, date |-> url.date, hour |-> hour,
              minutes |-> minutes, mer |-> url.mer]

parse_pdf_time_parts(url) ==
    IF ~url.conv \/ url.digits = <<>> THEN NoParts
    ELSE LET n == Len(url.digits)
             hour == IF n <= 2 THEN DigitsToInt(url.digits)
                     ELSE DigitsToInt(SubSeq(url.digits, 1, n - 2))
             minutes == IF n <= 2 THEN 0
                        ELSE DigitsToInt(SubSeq(url.digits, n - 1, n))
         IN  IF hour < 1 \/ hour > 12 \/ minutes < 0 \/ minutes > 59 THEN NoParts
             ELSE [ok |-> TRUE, date |-> url.date, hour |-> hour,
                   minutes |-> minutes, mer |-> url.mer]

IsLeap(y) == (y % 4 = 0 /\ y % 100 # 0) \/ y % 400 = 0

DaysInMonth(y, m) ==
    IF m = 2 THEN (IF IsLeap(y) THEN 29 ELSE 28)
    ELSE IF m \in {4, 6, 9, 11} THEN 30 ELSE 31

\* datetime.strptime raises ValueError for a date that is not on the calendar.
ValidDate(d) == d[1] >= 1 /\ d[2] \in 1..12 /\ d[3] >= 1 /\ d[3] <= DaysInMonth(d[1], d[2])

\* Days from 1970-01-01 to the civil date y-m-d.
DaysFromCivil(y, m, d) ==
    LET yy == IF m <= 2 THEN y - 1 ELSE y
        era == yy \div 400
        yoe == yy - era * 400
        mp == (m + 9) % 12
        doy == (153 * mp + 2) \div 5 + d - 1
        doe == yoe * 365 + yoe \div 4 - yoe \div 100 + doy
    IN  era * 146097 + doe - 719468

\* if meridiem == "PM" and hour < 12: hour += 12
\* if meridiem == "AM" and hour == 12: hour = 0
Hour24NoonUnchanged(hour, meridiem) ==
    IF meridiem = "PM" THEN hour + 12
    ELSE IF meridiem = "AM" /\ hour = 12 THEN 0 ELSE hour

Hour24(hour, meridiem) ==
    LET h1 == IF meridiem = "PM" /\ hour < 12 THEN hour + 12 ELSE hour
    IN  IF meridiem = "AM" /\ h1 = 12 THEN 0 ELSE h1

\* parse_pdf_datetime: 0 when the parts are missing or the date is invalid, else
\* int(datetime.strptime(...).timestamp()).  The datetime is naive, so the
\* epoch is that of the wall-clock time in the local zone of the process, which
\* is utc_offset seconds east of UTC.  (The first day of year 1 and the last of
\* year 9999, where the conversion leaves datetime's range and 0 is returned,
\* are not in the model.)
parse_pdf_datetime_local(url, utc_offset) ==
    LET parts == parse_pdf_time_parts(url)
    IN  IF ~parts.ok THEN 0
        ELSE IF ~ValidDate(parts.date) THEN 0
        ELSE DaysFromCivil(parts.date[1], parts.date[2], parts.date[3]) * 86400
             + Hour24(parts.hour, parts.mer) * 3600 + parts.minutes * 60
             - utc_offset

\* parse_pdf_datetime in a process whose local zone is UTC.
parse_pdf_datetime(url) == parse_pdf_datetime_local(url, 0)

\* The characters of a file name's time part, [0-9_:\-], and the digit each
\* digit character stands for.
DigitChars == <<"0", "1", "2", "3", "4", "5", "6", "7", "8", "9">>
IsDigitChar(c) == \E i \in 1..10 : DigitChars[i] = c
DigitValue(c) == (CHOOSE i \in 1..10 : DigitChars[i] = c) - 1
TimeChars == {DigitChars[i] : i \in 1..10} \cup {"_", ":", "-"}

\* digits = re.sub(r"\D", "", raw_time_str)
TimeDigits(raw) ==
    LET kept == SelectSeq(raw, IsDigitChar)
    IN  [i \in 1..Len(kept) |-> DigitValue(kept[i])]

\* meridiem.upper(), for the spellings (AM|PM) matches under re.I
MeridiemUpper(meridiem) ==
    CASE meridiem \in {"AM", "am", "Am", "aM"} -> "AM"
      [] meridiem \in {"PM", "pm", "Pm", "pM"} -> "PM"
      [] OTHER -> meridiem

\* The URL of the file Injury-Report_<date>_<raw><meridiem>.pdf on `host`:
\* PDF_TIME_PATTERN matches when raw is 1 to 8 characters of [0-9_:\-] and the
\* meridiem is AM or PM in either case.
FileUrl(date, raw, meridiem, host) ==
    IF /\ Len(raw) \in 1..8
       /\ \A i \in 1..Len(raw) : raw[i] \in TimeChars
       /\ MeridiemUpper(meridiem) \in {"AM", "PM"}
    THEN UrlOf(date, TimeDigits(raw), MeridiemUpper(meridiem), host)
    ELSE [NoUrl EXCEPT !.host = host]

\* f"{n:02d}"
Pad2(n) == <<DigitChars[(n \div 10) + 1], DigitChars[(n % 10) + 1]>>

\* parse_pdf_time_label: "" without parts, else f"{hour:02d}:{minutes:02d} {meridiem} ET"
parse_pdf_time_label_unpadded(url) ==
    LET parts == parse_pdf_time_parts(url)
    IN  IF ~parts.ok THEN <<>>
        ELSE (IF parts.hour < 10 THEN <<DigitChars[parts.hour + 1]>> ELSE Pad2(parts.hour))
             \o <<":">> \o Pad2(parts.minutes) \o <<" ", parts.mer, " ", "ET">>

parse_pdf_time_label(url) ==
    LET parts == parse_pdf_time_parts(url)
    IN  IF ~parts.ok THEN <<>>
        ELSE Pad2(parts.hour) \o <<":">> \o Pad2(parts.minutes)
             \o <<" ", parts.mer, " ", "ET">>

\* fallback_pdf_url: the same file name on the CDN mirror.
fallback_pdf_url(url) == [url EXCEPT !.host = "ak-static.cms.nba.com"]

\* The links the source page may show: an early report, a later report of the
\* same day, and a name whose hour (13) is rejected.
ReportDate == <<2026, 2, 8>>
UrlEarly == UrlOf(ReportDate, <<0, 3, 4, 5>>, "AM", "official.nba.com")
UrlLate == UrlOf(ReportDate, <<0, 3, 4, 5>>, "PM", "official.nba.com")
UrlBadHour == UrlOf(ReportDate, <<1, 3, 0, 0>>, "PM", "official.nba.com")
PageLinks == {UrlEarly, UrlLate, UrlBadHour}

---------------------------------------------------------------------------
\* Payloads.

\* A payload is a dict: keys lists the keys it has, pdfUrl is meta.pdfUrl and
\* nrows the length of rows (NoUrl and 0 when the key is absent).
NoPayload ==
    [ok |-> FALSE, step |-> "None", error |-> "", pdfUrl |-> NoUrl, nrows |-> 0, keys |-> {}]

\* "error": the text that goes with each step
ErrorText(step) ==
    IF step = "parse_links" THEN "No PDF found on official page."
    ELSE "PDF loaded but no usable rows."

FailurePayload(step) ==
    [ok |-> FALSE, step |-> step, error |-> ErrorText(step), pdfUrl |-> NoUrl, nrows |-> 0,
     keys |-> {"ok", "error", "step"}]

SuccessPayload(url, n) ==
    [ok |-> TRUE, step |-> "", error |-> "", pdfUrl |-> url, nrows |-> n,
     keys |-> {"ok", "meta", "stats", "rows"}]

\* What the network and the document give one run of a resolver or a pipeline:
\* link:  "raise" (the page fetch exhausted its retries), "none", or "found";
\* fetch: which document request succeeded, or "fail" when none did;
\* nrows: how many rows reconciliation emitted.
LinkOutcomes ==
    {[kind |-> "raise", url |-> NoUrl], [kind |-> "none", url |-> NoUrl]}
    \cup {[kind |-> "found", url |-> u] : u \in PageLinks}

PipelineEnvs ==
    [link : LinkOutcomes, fetch : {"primary", "fail"}, nrows : 0..1]

Raised == [raised |-> TRUE, payload |-> NoPayload]
Returned(p) == [raised |-> FALSE, payload |-> p]

\* fetch_injury_report: its result for what the environment gives it.
fetch_injury_report_keeps_empty(env) ==
    IF env.link.kind = "raise" THEN Raised
    ELSE IF env.link.kind = "none" THEN Returned(FailurePayload("parse_links"))
    ELSE IF env.fetch = "fail" THEN Raised
    ELSE IF env.fetch = "fallback" /\ fallback_pdf_url(env.link.url) = env.link.url THEN Raised
    ELSE Returned(SuccessPayload(IF env.fetch = "fallback" THEN fallback_pdf_url(env.link.url)
                                 ELSE env.link.url,
                                 env.nrows))

fetch_injury_report(env) ==
    IF env.link.kind = "raise" THEN Raised
    ELSE IF env.link.kind = "none" THEN Returned(FailurePayload("parse_links"))
    ELSE IF env.fetch = "fail" THEN Raised
    ELSE IF env.fetch = "fallback" /\ fallback_pdf_url(env.link.url) = env.link.url THEN Raised
    ELSE LET latest == IF env.fetch = "fallback" THEN fallback_pdf_url(env.link.url)
                       ELSE env.link.url
         IN  IF env.nrows = 0 THEN Returned(FailurePayload("parse_pdf"))
             ELSE Returned(SuccessPayload(latest, env.nrows))


---------------------------------------------------------------------------
\* get_cached_report, one step per statement that another thread can observe.

\* The locals of a call.  probe, ran, wrote, seen_empty and seen_stale are
\* history: what the freshness probe answered, whether the pipeline ran, whether
\* the call wrote the slot, and what the call saw under the lock.
NoProbe == [kind |-> "no", url |-> NoUrl]

Frame0 ==
    [force |-> FALSE, now |-> 0, cached_payload |-> NoPayload, cache_fresh |-> FALSE,
     payload |-> NoPayload, result |-> NoPayload,
     probe |-> NoProbe, ran |-> FALSE, wrote |-> FALSE,
     seen_empty |-> FALSE, seen_stale |-> FALSE]

\* now - CACHE_STATE["last_updated"] < CACHE_TTL_SECONDS
IsFreshOffByOne(now_t, last_updated) == now_t - last_updated <= CACHE_TTL_SECONDS
IsFresh(now_t, last_updated) == now_t - last_updated < CACHE_TTL_SECONDS

\* latest_url and latest_ts > cached_ts
IsNewerOrEqual(found, latest_ts, cached_ts) == found /\ latest_ts >= cached_ts
IsNewer(found, latest_ts, cached_ts) == found /\ latest_ts > cached_ts

\* if payload.get("ok"):
ShouldStoreAlways(payload) == TRUE
ShouldStoreNever(payload) == FALSE
ShouldStore(payload) == payload.ok

\* now = time.time(); cached_payload = None; cache_fresh = False
\* A thread enters a call when it is in none: pc and frame keep the outcome of
\* its last call ("done": returned frame.result; "raised") until then.
Enter(t, force) ==
    /\ pc[t] \in {"idle", "done", "raised"}
    /\ pc' = [pc EXCEPT ![t] = "lock1"]
    /\ frame' = [frame EXCEPT ![t] = [Frame0 EXCEPT !.force = force, !.now = now]]

\* A request thread calls get_cached_report(force).
Call(t, force) ==
    /\ t \in RequestThreads
    /\ Enter(t, force)
    /\ UNCHANGED <<now, CACHE_STATE, CACHE_LOCK, sched, stamp, dd, nz, px, net>>

\* with CACHE_LOCK: (the read block)
Acquire(t) ==
    /\ pc[t] = "lock1"
    /\ CACHE_LOCK = "free"
    /\ CACHE_LOCK' = t
    /\ pc' = [pc EXCEPT ![t] = "check"]
    /\ UNCHANGED <<now, CACHE_STATE, frame, sched, stamp, dd, nz, px, net>>

\* The body of the read block, and the branch that follows it.
Check(t) ==
    /\ pc[t] = "check"
    /\ LET f == frame[t]
           hit == /\ ~f.force
                  /\ CACHE_STATE.data # NoPayload
                  /\ IsFresh(f.now, CACHE_STATE.last_updated)
       IN  /\ frame' = [frame EXCEPT ![t] =
                 [f EXCEPT !.cached_payload = IF hit THEN CACHE_STATE.data ELSE NoPayload,
                           !.cache_fresh = hit,
                           !.seen_empty = (CACHE_STATE.data = NoPayload),
                           !.seen_stale = (f.now - CACHE_STATE.last_updated >= CACHE_TTL_SECONDS)]]
           /\ pc' = [pc EXCEPT ![t] = IF hit THEN "probe" ELSE "refresh"]
    /\ CACHE_LOCK' = "free"
    /\ UNCHANGED <<now, CACHE_STATE, sched, stamp, dd, nz, px, net>>

\* The freshness probe: fetch_latest_pdf_link() and the comparison of link times.
Probe(t, link) ==
    /\ pc[t] = "probe"
    /\ LET f == frame[t]
           cached_ts == parse_pdf_datetime(f.cached_payload.pdfUrl)
           latest_ts == parse_pdf_datetime(link.url)
       IN  IF link.kind = "raise"
           THEN /\ frame' = [frame EXCEPT ![t] =
                      [f EXCEPT !.probe = link, !.result = f.cached_payload]]
                /\ pc' = [pc EXCEPT ![t] = "done"]
           ELSE IF IsNewer(link.kind = "found", latest_ts, cached_ts)
           THEN /\ frame' = [frame EXCEPT ![t] = [f EXCEPT !.probe = link]]
                /\ pc' = [pc EXCEPT ![t] = "refresh"]
           ELSE /\ frame' = [frame EXCEPT ![t] =
                      [f EXCEPT !.probe = link, !.result = f.cached_payload]]
                /\ pc' = [pc EXCEPT ![t] = "done"]
    /\ UNCHANGED <<now, CACHE_STATE, CACHE_LOCK, sched, stamp, dd, nz, px, net>>

\* payload = fetch_injury_report(), and the test of payload["ok"].
Refresh(t, env) ==
    /\ pc[t] = "refresh"
    /\ LET f == frame[t]
           r == fetch_injury_report(env)
       IN  IF r.raised
           THEN /\ frame' = [frame EXCEPT ![t] = [f EXCEPT !.ran = TRUE]]
                /\ pc' = [pc EXCEPT ![t] = "raised"]
           ELSE IF ShouldStore(r.payload)
           THEN /\ frame' = [frame EXCEPT ![t] = [f EXCEPT !.ran = TRUE, !.payload = r.payload]]
                /\ pc' = [pc EXCEPT ![t] = "lock2"]
           ELSE /\ frame' = [frame EXCEPT ![t] =
                      [f EXCEPT !.ran = TRUE, !.payload = r.payload, !.result = r.payload]]
                /\ pc' = [pc EXCEPT ![t] = "done"]
    /\ UNCHANGED <<now, CACHE_STATE, CACHE_LOCK, sched, stamp, dd, nz, px, net>>

\* with CACHE_LOCK: (the write block)
AcquireForWriteUnlocked(t) ==
    /\ pc[t] = "lock2"
    /\ pc' = [pc EXCEPT ![t] = "write_data"]
    /\ UNCHANGED <<now, CACHE_STATE, CACHE_LOCK, frame, sched, stamp, dd, nz, px, net>>
AcquireForWrite(t) ==
    /\ pc[t] = "lock2"
    /\ CACHE_LOCK = "free"
    /\ CACHE_LOCK' = t
    /\ pc' = [pc EXCEPT ![t] = "write_data"]
    /\ UNCHANGED <<now, CACHE_STATE, frame, sched, stamp, dd, nz, px, net>>

\* CACHE_STATE["data"] = payload
WriteData(t) ==
    /\ pc[t] = "write_data"
    /\ CACHE_STATE' = [CACHE_STATE EXCEPT !.data = frame[t].payload]
    /\ stamp' = [stamp EXCEPT !.data = t]
    /\ frame' = [frame EXCEPT ![t].wrote = TRUE]
    /\ pc' = [pc EXCEPT ![t] = "write_ts"]
    /\ UNCHANGED <<now, CACHE_LOCK, sched, dd, nz, px, net>>

\* CACHE_STATE["last_updated"] = now; leave the block; return payload
WriteTimestamp(t) ==
    /\ pc[t] = "write_ts"
    /\ CACHE_STATE' = [CACHE_STATE EXCEPT !.last_updated = frame[t].now]
    /\ stamp' = [stamp EXCEPT !.ts = t]
    /\ frame' = [frame EXCEPT ![t].result = frame[t].payload]
    /\ CACHE_LOCK' = IF CACHE_LOCK = t THEN "free" ELSE CACHE_LOCK
    /\ pc' = [pc EXCEPT ![t] = "done"]
    /\ UNCHANGED <<now, sched, dd, nz, px, net>>

---------------------------------------------------------------------------
\* start_scheduler's loop: try: get_cached_report(force=True)
\* except Exception: log; then time.sleep(CACHE_TTL_SECONDS).

\* Where the loop goes when the call has ended at `ended` ("done" or "raised").
AfterRunUncaught(ended) == IF ended = "raised" THEN "dead" ELSE "sleeping"
AfterRun(ended) == "sleeping"

SchedCall ==
    /\ sched.pc = "top"
    /\ Enter(SchedulerThread, TRUE)
    /\ sched' = [sched EXCEPT !.pc = "calling"]
    /\ UNCHANGED <<now, CACHE_STATE, CACHE_LOCK, stamp, dd, nz, px, net>>

SchedAfterRun ==
    /\ sched.pc = "calling"
    /\ pc[SchedulerThread] \in {"done", "raised"}
    /\ sched' = [pc |-> AfterRun(pc[SchedulerThread]), wake_at |-> now + CACHE_TTL_SECONDS]
    /\ UNCHANGED <<now, CACHE_STATE, CACHE_LOCK, pc, frame, stamp, dd, nz, px, net>>

SchedWake ==
    /\ sched.pc = "sleeping"
    /\ now >= sched.wake_at
    /\ sched' = [sched EXCEPT !.pc = "top"]
    /\ UNCHANGED <<now, CACHE_STATE, CACHE_LOCK, pc, frame, stamp, dd, nz, px, net>>

Tick ==
    /\ now + TickSeconds <= ClockEnd
    /\ now' = now + TickSeconds
    /\ UNCHANGED <<CACHE_STATE, CACHE_LOCK, pc, frame, sched, stamp, dd, nz, px, net>>

\* CACHE_STATE = {"data": None, "last_updated": 0}
CacheInit ==
    /\ now = BootTime
    /\ CACHE_STATE = [data |-> NoPayload, last_updated |-> 0]
    /\ CACHE_LOCK = "free"
    /\ pc = [t \in Threads |-> "idle"]
    /\ frame = [t \in Threads |-> Frame0]
    /\ sched = [pc |-> "top", wake_at |-> 0]
    /\ stamp = [data |-> "init", ts |-> "init"]

\* normalize_rows before its first row: its locals, and the history of the rows
\* read (the path the last row took, the times the rows of each matchup carried).
NormState0 ==
    [normalized |-> <<>>, last_team |-> <<>>, last_game_time |-> <<>>,
     last_real_game_time |-> <<>>, last_matchup |-> <<>>,
     game_time_by_matchup |-> <<>>,
     carryover_reason_by_page |-> <<>>, carryover_team_by_page |-> <<>>,
     pending_reason_by_page |-> <<>>, pending_team_by_page |-> <<>>]

NormInit ==
    [st |-> NormState0, n |-> 0,
     last |-> [path |-> "none", key |-> <<>>, own |-> <<>>, seen_before |-> {},
               recorded_before |-> <<>>, team |-> <<>>, team_before |-> <<>>,
               player |-> <<>>,
               row |-> [gameTime |-> <<>>, matchup |-> <<>>, team |-> <<>>,
                        player |-> <<>>, status |-> <<>>, reason |-> <<>>,
                        page |-> 0, rowIndex |-> 0, gameDate |-> <<>>],
               carry |-> [taken |-> FALSE, held |-> FALSE, accepted |-> <<>>,
                          team |-> <<>>, page |-> 0, from |-> <<>>]],
     hist |-> [seen |-> <<>>, first |-> <<>>, recorded |-> <<>>, held |-> <<>>]]

Init ==
    /\ CacheInit
    /\ dd = [stage |-> "input", rows |-> <<>>, out |-> <<>>, again |-> <<>>]
    /\ nz = NormInit
    /\ px = [op |-> "none"]
    /\ net = [stage |-> "idle"]

\* The steps of the threads, with the answers of the network drawn from the
\* link outcomes `links` and the pipeline environments `envs`.
NextOver(links, envs) ==
    \/ Tick
    \/ \E t \in RequestThreads, force \in BOOLEAN : Call(t, force)
    \/ \E t \in Threads : Acquire(t)
    \/ \E t \in Threads : Check(t)
    \/ \E t \in Threads, link \in links : Probe(t, link)
    \/ \E t \in Threads, env \in envs : Refresh(t, env)
    \/ \E t \in Threads : AcquireForWrite(t)
    \/ \E t \in Threads : WriteData(t)
    \/ \E t \in Threads : WriteTimestamp(t)
    \/ SchedCall
    \/ SchedAfterRun
    \/ SchedWake

Next == NextOver(LinkOutcomes, PipelineEnvs)

Spec == Init /\ [][Next]_vars


\* The scheduler's progress does not depend on which document is published:
\* the liveness specification lets the page show one link only.
LiveLinks == {l \in LinkOutcomes : l.kind = "found" => l.url = UrlEarly}
LiveEnvs == {e \in PipelineEnvs : e.link \in LiveLinks}

NextLive == NextOver(LiveLinks, LiveEnvs)

\* The scheduler thread is scheduled, its network calls return (they carry
\* timeouts), the clock advances, and a thread inside a `with CACHE_LOCK` block
\* leaves it; a thread waiting for the lock gets it when it is free often enough.
Fairness ==
    /\ WF_vars(Tick)
    /\ WF_vars(SchedCall)
    /\ WF_vars(SchedAfterRun)
    /\ WF_vars(SchedWake)
    /\ SF_vars(Acquire(SchedulerThread))
    /\ SF_vars(AcquireForWrite(SchedulerThread))
    /\ WF_vars(\E env \in LiveEnvs : Refresh(SchedulerThread, env))
    /\ \A t \in Threads : WF_vars(Check(t))
    /\ \A t \in Threads : WF_vars(WriteData(t))
    /\ \A t \in Threads : WF_vars(WriteTimestamp(t))

LiveSpec == Init /\ [][NextLive]_vars /\ Fairness

---------------------------------------------------------------------------
\* Claims about the cache controller.

InWrite(t) == pc[t] \in {"write_data", "write_ts"}

\* C1: the slot and its timestamp are replaced only by a pipeline run whose
\* payload has ok = true: every change of CACHE_STATE is made by a call that ran
\* the pipeline, got an ok payload, and writes that payload and its own entry
\* time; a call whose run returned a failure payload returns that payload
\* without having written the slot, and a call whose run raised wrote nothing.
C1_OnlySuccessReplacesSlot ==
    /\ [][CACHE_STATE' # CACHE_STATE =>
            \E t \in Threads :
                /\ InWrite(t) /\ frame[t].ran /\ frame[t].payload.ok
                /\ CACHE_STATE'.data \in {CACHE_STATE.data, frame[t].payload}
                /\ CACHE_STATE'.last_updated \in {CACHE_STATE.last_updated, frame[t].now}]_vars
    /\ [](\A t \in Threads :
            /\ (pc[t] = "done" /\ frame[t].ran /\ ~frame[t].payload.ok) =>
                  (frame[t].result = frame[t].payload /\ ~frame[t].wrote
                   /\ CACHE_STATE.data # frame[t].payload)
            /\ pc[t] = "raised" => ~frame[t].wrote)

\* C1 witness: a run has returned a failure payload while the slot holds an
\* earlier success.
C1_Witness ==
    \E t \in Threads :
        /\ pc[t] = "done" /\ frame[t].ran /\ ~frame[t].payload.ok
        /\ CACHE_STATE.data.ok /\ CACHE_STATE.last_updated > 0

ProbeTs(f) == parse_pdf_datetime(f.probe.url)
CachedTs(f) == parse_pdf_datetime(f.cached_payload.pdfUrl)

\* The probe of call frame f raised, found no link, or found a link whose
\* timestamp is <= the cached payload's.
ProbeNotNewer(f) ==
    \/ f.probe.kind \in {"raise", "none"}
    \/ f.probe.kind = "found" /\ ProbeTs(f) <= CachedTs(f)

ProbeNewer(f) == f.probe.kind = "found" /\ ProbeTs(f) > CachedTs(f)

\* C2: an unforced call on a fresh slot whose probe raised, found no link or
\* found a link not newer than the cached one returns the payload it read from
\* the slot, runs no pipeline and writes nothing; the probe step itself leaves
\* the slot as it was.
C2_ProbeNotNewerServesCache ==
    /\ [](\A t \in Threads :
            ProbeNotNewer(frame[t]) =>
                /\ pc[t] = "done"
                /\ ~frame[t].force /\ frame[t].cache_fresh
                /\ frame[t].cached_payload.ok
                /\ frame[t].result = frame[t].cached_payload
                /\ ~frame[t].ran /\ ~frame[t].wrote)
    /\ [][\A t \in Threads :
            (pc[t] = "probe" /\ pc'[t] = "done") => CACHE_STATE' = CACHE_STATE]_vars

\* C2 witness: the probe found a link with exactly the cached timestamp and the
\* cached payload was served.
C2_Witness ==
    \E t \in Threads :
        /\ pc[t] = "done" /\ frame[t].probe.kind = "found"
        /\ ProbeTs(frame[t]) = CachedTs(frame[t]) /\ CachedTs(frame[t]) > 0
        /\ frame[t].result = CACHE_STATE.data

\* The call of thread t is past the decision between serving and refreshing.
Decided(t) == pc[t] \in {"refresh", "lock2", "write_data", "write_ts", "done", "raised"}

\* The call of thread t runs (is about to run, or has run) the full pipeline.
RunsPipeline(t) ==
    pc[t] \in {"refresh", "lock2", "write_data", "write_ts", "raised"} \/ frame[t].ran

\* C3: a call runs the full pipeline exactly when it is forced, or saw the slot
\* empty, or saw an age >= 3600 seconds, or its probe found a strictly newer
\* link; in the first three cases it makes no probe.
C3_RefreshExactlyWhen ==
    \A t \in Threads :
        LET f == frame[t]
            unprobed == f.force \/ f.seen_empty \/ f.seen_stale
        IN  Decided(t) =>
                /\ RunsPipeline(t) <=> (unprobed \/ ProbeNewer(f))
                /\ unprobed => f.probe.kind = "no"

\* C3 witness: an unforced call that saw a slot aged exactly 3600 seconds is in
\* the pipeline, and made no probe.
C3_Witness ==
    \E t \in Threads :
        /\ pc[t] = "refresh" /\ ~frame[t].force /\ ~frame[t].seen_empty
        /\ frame[t].now - CACHE_STATE.last_updated = CACHE_TTL_SECONDS
        /\ frame[t].probe.kind = "no"

\* C4: the slot's two fields are read and written only inside a CACHE_LOCK
\* block, the two writes of one replacement are made inside one block, and so
\* a reader (and any state with the lock free) finds both fields set by the
\* same write.
C4_SlotAccessUnderLock ==
    /\ \A t \in Threads : (pc[t] = "check" \/ InWrite(t)) => CACHE_LOCK = t
    /\ \A t \in Threads : pc[t] = "check" => stamp.data = stamp.ts
    /\ CACHE_LOCK = "free" => stamp.data = stamp.ts

\* C4 witness: a reader is inside its block while another thread, holding a
\* fresh payload, waits for the lock to replace a slot that was written before.
C4_Witness ==
    \E t, u \in Threads :
        /\ t # u /\ pc[t] = "check" /\ pc[u] = "lock2"
        /\ CACHE_STATE.data.ok /\ stamp.data # u

\* C25: refreshes are not coalesced: a call that has decided to refresh runs
\* the pipeline whatever the other calls are doing (its pipeline step can be
\* taken even while another call is inside the pipeline, and with a payload in
\* hand it waits for nothing but the lock), and every call whose run returned
\* an ok payload has written the slot when it returns.
C25_RefreshesNotCoalesced ==
    \A t \in Threads :
        /\ pc[t] = "refresh" => ENABLED (\E env \in PipelineEnvs : Refresh(t, env))
        /\ (pc[t] = "lock2" /\ CACHE_LOCK = "free") => ENABLED AcquireForWrite(t)
        /\ (pc[t] = "done" /\ frame[t].ran /\ frame[t].payload.ok) =>
              (frame[t].wrote /\ frame[t].result = frame[t].payload)

\* C25 witness: a forced request and the scheduled call are inside the
\* pipeline at the same time.
C25_Witness ==
    /\ \A t \in Threads : pc[t] = "refresh"
    /\ \A t \in Threads : frame[t].force

SlotEmpty == CACHE_STATE.data = NoPayload /\ CACHE_STATE.last_updated = 0

SlotFilled ==
    /\ CACHE_STATE.data.ok /\ CACHE_STATE.data.nrows >= 1
    /\ CACHE_STATE.last_updated > 0

\* C28 as stated: in every reachable state the slot is either empty with
\* last-update timestamp 0, or holds an ok payload with at least one row and
\* a timestamp > 0.
C28_SlotEmptyOrFilled == SlotEmpty \/ SlotFilled

\* C28, amended: the slot's data is always either empty or an ok payload
\* with at least one row, never a failure payload; and whenever no writer
\* stands between its two assignments, the slot is either empty with
\* timestamp 0 or filled with a timestamp > 0.  A writer between its two
\* assignments holds the lock.
C28_SlotEmptyOrFilledOutsideWrite ==
    /\ CACHE_STATE.data = NoPayload \/ (CACHE_STATE.data.ok /\ CACHE_STATE.data.nrows >= 1)
    /\ CACHE_STATE.last_updated >= 0
    /\ (\A t \in Threads : pc[t] # "write_ts") => (SlotEmpty \/ SlotFilled)
    /\ \A t \in Threads : pc[t] = "write_ts" => CACHE_LOCK = t

\* C28 witness: a call has replaced the slot and returned, the lock is free,
\* and the slot holds its payload and its entry time.
C28_Witness ==
    \E t \in Threads :
        /\ pc[t] = "done" /\ frame[t].wrote /\ CACHE_LOCK = "free"
        /\ SlotFilled
        /\ CACHE_STATE.data = frame[t].payload /\ CACHE_STATE.last_updated = frame[t].now

\* A later write never carries an earlier entry time than the slot's, unless
\* the writing call entered before the call that wrote the slot.
TimestampDecreasesOnlyByOlderCall ==
    [][CACHE_STATE'.last_updated < CACHE_STATE.last_updated =>
          \E t \in Threads :
              /\ pc[t] = "write_ts" /\ CACHE_STATE'.last_updated = frame[t].now
              /\ frame[t].now < CACHE_STATE.last_updated]_vars

\* C29: over any interleaving of overlapping get_cached_report calls the
\* slot's last-update timestamp never decreases: a refresh that started
\* earlier and finished later does not overwrite the slot written by a
\* refresh that started after it.
C29_TimestampNeverDecreases ==
    [][/\ CACHE_STATE'.last_updated >= CACHE_STATE.last_updated
       /\ \A t \in Threads :
             (pc[t] = "write_data" /\ CACHE_STATE.last_updated > frame[t].now) =>
                 CACHE_STATE'.data = CACHE_STATE.data]_vars

\* C5: no outcome of a scheduled run ends the loop: every scheduled call ends
\* in the sleep that follows it, whether it returned a success, a failure or
\* raised, and every sleep that ends within the clock's range is followed by the
\* next call.
C5_SchedulerLoopsForever ==
    /\ [](sched.pc \in {"top", "calling", "sleeping"})
    /\ [](sched.pc \in {"top", "sleeping"} => pc[SchedulerThread] \in {"idle", "done", "raised"})
    /\ [](pc[SchedulerThread] # "idle" => frame[SchedulerThread].force)
    /\ (sched.pc = "calling") ~> (sched.pc = "sleeping")
    /\ (sched.pc = "sleeping" /\ sched.wake_at <= ClockEnd) ~> (sched.pc = "calling")

\* C5 witness: the scheduler has slept its interval after a run that raised
\* and is at the top of the loop again, about to make the next call.
C5_Witness ==
    /\ sched.pc = "top" /\ pc[SchedulerThread] = "raised"
    /\ now >= sched.wake_at /\ sched.wake_at >= BootTime + CACHE_TTL_SECONDS


(***************************************************************************)
(* Part II.  Text                                                          *)
(*                                                                         *)
(* A text is a sequence of tokens; the empty text is <<>>.  A token is a   *)
(* maximal piece of text that the program's regular expressions treat as a *)
(* unit (a word, a "Last, First" name, a status, a matchup code, ...);     *)
(* tokens are joined by single spaces, so joining two texts with " " is    *)
(* concatenation and a character position is > 0 exactly when the token    *)
(* index is > 1.  A regular expression is a predicate on (text, index):    *)
(* whether it matches starting at that token.                              *)
(***************************************************************************)

Txt(tok) == <<tok>>
Empty == <<>>

Min(S) == CHOOSE x \in S : \A y \in S : x <= y

\* Whitespace-only text.
Blank == " "

\* str.upper() on the tokens that have another case form in the alphabet; any
\* other token stands for its own upper-case form.
UpperTok(tok) ==
    CASE tok = "Miami Heat" -> "MIAMI HEAT"
      [] tok = "Curry, Seth" -> "CURRY, SETH"
      [] tok = "not yet submitted" -> "NOT YET SUBMITTED"
      [] tok = "tbd" -> "TBD"
      [] tok = "mia@was" -> "MIA@WAS"
      [] OTHER -> tok

Upper(text) == [i \in 1..Len(text) |-> UpperTok(text[i])]

\* text.strip(chars): drop the leading and trailing tokens made of `chars`.
RECURSIVE StripTokens(_, _)
StripTokens(text, chars) ==
    IF text = <<>> THEN text
    ELSE IF text[1] \in chars THEN StripTokens(Tail(text), chars)
    ELSE IF text[Len(text)] \in chars THEN StripTokens(SubSeq(text, 1, Len(text) - 1), chars)
    ELSE text

\* str.strip()
Strip(text) == StripTokens(text, {Blank})

\* f"{a} {b}".strip()
Join(a, b) == Strip(a \o b)

\* `needle in haystack` for strings
Contains(haystack, needle) ==
    \E i \in 1..(Len(haystack) - Len(needle) + 1) :
        SubSeq(haystack, i, i + Len(needle) - 1) = needle

\* The token classes the regular expressions tell apart.
CommaNames == {"Curry, Seth", "CURRY, SETH", "James, LeBron"}
StatusTokens == {"Out", "Questionable", "Not With Team"}
\* Words that begin with a status word: \b after the status keeps them out.
StatusPrefixedWords == {"Outlook"}
PageMarkers == {"Page 1 of 3"}
MatchupCodesUpper == {"MIA@WAS", "BOS@NYK"}
MatchupCodesLower == {"mia@was"}
DateTokens == {"02/08/2026"}
\* A time followed by whitespace or by the end of the text.
TimeTokens == {"07:00 (ET)", "08:30 (ET)"}
\* A time with a word glued to its closing parenthesis.
GluedTimeTokens == {"07:00 (ET)Miami"}
PunctTokens == {"-", ";", ","}
NYS == "NOT YET SUBMITTED"

\* player_status_blob_regex: \bLast,\s*First\s+(Out|Questionable|...)\b
player_status_blob_regex(text, i) ==
    /\ text[i] \in CommaNames
    /\ i + 1 <= Len(text)
    /\ text[i + 1] \in StatusTokens

\* page_marker_regex: \bPage\s*\d+\s*of\s*\d+\b
page_marker_regex(text, i) == text[i] \in PageMarkers

\* matchup_blob_regex: \b[A-Z]{2,4}\s*@\s*[A-Z]{2,4}\b (case-sensitive)
matchup_blob_regex(text, i) == text[i] \in MatchupCodesUpper

\* date_or_time_blob_regex: \b\d{2}/\d{2}/\d{4}\b | \b\d{1,2}:\d{2}\s*\(ET\)\b
\* The \b after \) holds only where a word character follows the parenthesis,
\* so a time followed by a space or by the end of the text does not match.
date_or_time_blob_regex(text, i) == text[i] \in DateTokens \cup GluedTimeTokens

\* status_blob_regex: \b(Out|Questionable|...)\b
status_blob_regex(text, i) == text[i] \in StatusTokens

\* [A-Z][A-Za-z'`.\-]+,\s*[A-Z][A-Za-z'`.\-]+
comma_name_regex(text, i) == text[i] \in CommaNames

\* normalize_spaces: collapse runs of whitespace and strip.
normalize_spaces(text) == SelectSeq(text, LAMBDA tok : tok # Blank)

\* deduplicate_rows.noisy_reason_regex (re.I, and no \b around the name/status
\* alternative): name + status, page marker, date, or matchup code in any case.
noisy_reason_regex(text, i) ==
    \/ /\ text[i] \in CommaNames
       /\ i + 1 <= Len(text)
       /\ text[i + 1] \in StatusTokens \cup StatusPrefixedWords
    \/ text[i] \in PageMarkers
    \/ text[i] \in DateTokens
    \/ text[i] \in MatchupCodesUpper \cup MatchupCodesLower

\* Whether the regular expression named `re` matches at token i of text.
RegexAt(re, text, i) ==
    CASE re = "player_status_blob_regex" -> player_status_blob_regex(text, i)
      [] re = "page_marker_regex" -> page_marker_regex(text, i)
      [] re = "matchup_blob_regex" -> matchup_blob_regex(text, i)
      [] re = "date_or_time_blob_regex" -> date_or_time_blob_regex(text, i)
      [] re = "status_blob_regex" -> status_blob_regex(text, i)
      [] re = "comma_name_regex" -> comma_name_regex(text, i)
      [] re = "noisy_reason_regex" -> noisy_reason_regex(text, i)

\* regex.search(text).start(): the first token index at which `re` matches,
\* 0 if there is no match.
FirstMatch(text, re) ==
    IF \E i \in 1..Len(text) : RegexAt(re, text, i)
    THEN Min({i \in 1..Len(text) : RegexAt(re, text, i)})
    ELSE 0

\* bool(regex.search(text))
Matches(text, re) == FirstMatch(text, re) > 0

\* len(regex.findall(text))
CountMatches(text, re) == Cardinality({i \in 1..Len(text) : RegexAt(re, text, i)})

(***************************************************************************)
(* Part III.  deduplicate_rows                                             *)
(***************************************************************************)

\* A Row.  Its text fields are texts; page and rowIndex are numbers.
RowOf(gameTime, matchup, team, player, status, reason, page, rowIndex) ==
    [gameTime |-> gameTime, matchup |-> matchup, team |-> team, player |-> player,
     status |-> status, reason |-> reason, page |-> page, rowIndex |-> rowIndex,
     gameDate |-> <<>>]

\* key = (team.strip().upper(), player.strip().upper(), gameTime.strip())
RowKey(row) == <<Upper(Strip(row.team)), Upper(Strip(row.player)), Strip(row.gameTime)>>

\* if not key[1] or key[1] == "NOT YET SUBMITTED": the row is kept under id(row)
BypassesKeyNever(row) == FALSE
BypassesKey(row) == RowKey(row)[2] = <<>> \/ RowKey(row)[2] = Txt(NYS)

\* An entry of the dict `unique`: rows kept under id(row) carry the position of
\* the row object in the input (id > 0), keyed rows carry their key.
IdEntry(i, row) == [id |-> i, key |-> <<>>, row |-> row]
KeyEntry(row) == [id |-> 0, key |-> RowKey(row), row |-> row]

\* The index in `unique` of the entry with the row's key, 0 if there is none.
FindKey(unique, row) ==
    LET hits == {j \in 1..Len(unique) : unique[j].id = 0 /\ unique[j].key = RowKey(row)}
    IN  IF hits = {} THEN 0 ELSE Min(hits)

\* for field in [...]: if not existing.get(field) and row.get(field): existing[field] = row[field]
BackFill(existing, row) ==
    [existing EXCEPT
        !.status = IF @ = <<>> /\ row.status # <<>> THEN row.status ELSE @,
        !.matchup = IF @ = <<>> /\ row.matchup # <<>> THEN row.matchup ELSE @,
        !.gameTime = IF @ = <<>> /\ row.gameTime # <<>> THEN row.gameTime ELSE @,
        !.team = IF @ = <<>> /\ row.team # <<>> THEN row.team ELSE @]

\* What the loop does when the incoming row's reason is noisy: `continue`.
NoisyIncomingKept(unique, j, i, row) == Append(unique, IdEntry(i, row))
NoisyIncoming(unique, j, i, row) == unique

\* The merge of an incoming row into the kept row of its key.
MergeInto(existing, row) ==
    LET existing_reason == Strip(existing.reason)
        new_reason == Strip(row.reason)
        merged == IF new_reason # <<>> /\ ~Contains(existing_reason, new_reason)
                  THEN [existing EXCEPT !.reason = Join(existing_reason, new_reason)]
                  ELSE existing
    IN  BackFill(merged, row)

\* One iteration of `for row in rows`, for the row at position i of the input.
DedupStep(unique, i, row) ==
    IF BypassesKey(row) THEN Append(unique, IdEntry(i, row))
    ELSE LET j == FindKey(unique, row)
         IN  IF j = 0 THEN Append(unique, KeyEntry(row))
             ELSE IF Strip(row.reason) # <<>> /\ Matches(Strip(row.reason), "noisy_reason_regex")
             THEN NoisyIncoming(unique, j, i, row)
             ELSE [unique EXCEPT ![j].row = MergeInto(unique[j].row, row)]

RECURSIVE DedupLoop(_, _, _)
DedupLoop(rows, i, unique) ==
    IF i > Len(rows) THEN unique
    ELSE DedupLoop(rows, i + 1, DedupStep(unique, i, rows[i]))

\* key=lambda x: (x.get("page", 0), x.get("rowIndex", 0))
SortKeyLess(a, b) == a.page < b.page \/ (a.page = b.page /\ a.rowIndex < b.rowIndex)

\* list.sort: stable, ascending.
RECURSIVE InsertSorted(_, _)
InsertSorted(sorted, row) ==
    IF sorted = <<>> THEN <<row>>
    ELSE IF SortKeyLess(row, sorted[Len(sorted)])
    THEN Append(InsertSorted(SubSeq(sorted, 1, Len(sorted) - 1), row), sorted[Len(sorted)])
    ELSE Append(sorted, row)

RECURSIVE StableSort(_)
StableSort(rows) ==
    IF rows = <<>> THEN <<>>
    ELSE InsertSorted(StableSort(SubSeq(rows, 1, Len(rows) - 1)), rows[Len(rows)])

deduplicate_rows(rows) ==
    LET unique == DedupLoop(rows, 1, <<>>)
    IN  StableSort([j \in 1..Len(unique) |-> unique[j].row])


---------------------------------------------------------------------------
\* deduplicate_rows applied to every list of at most MaxDedupRows candidate
\* rows, and then to its own output.

MaxDedupRows == 2

DedupTeams == {Txt("Miami Heat"), Txt("MIAMI HEAT")}
DedupPlayers == {Txt("Curry, Seth"), Txt(NYS), Empty}
DedupTimes == {Txt("07:00 (ET)"), Txt("08:30 (ET)")}
\* A reason and the rowIndex it is found at: a clean reason at either line, a
\* longer one at the later line, a leaked "Last, First Out" at the earlier one.
DedupReasons ==
    {<<Txt("Knee"), 0>>, <<Txt("Knee"), 1>>, <<<<"Soreness", "Knee">>, 1>>,
     <<<<"James, LeBron", "Out">>, 0>>}

\* The candidate rows the strategies may emit.
DedupRows ==
    {RowOf(tm, Txt("MIA@WAS"), team, player, Txt("Out"), r[1], 1, r[2]) :
        tm \in DedupTimes, team \in DedupTeams, player \in DedupPlayers,
        r \in DedupReasons}

\* A strategy emits one more candidate row.
DedupInput(row) ==
    /\ dd.stage = "input"
    /\ Len(dd.rows) < MaxDedupRows
    /\ dd' = [dd EXCEPT !.rows = Append(@, row)]
    /\ UNCHANGED cacheVars
    /\ UNCHANGED <<px, net>>
    /\ UNCHANGED nz

\* deduplicate_rows(combined_rows)
DedupRun ==
    /\ dd.stage = "input"
    /\ dd' = [dd EXCEPT !.stage = "deduplicated", !.out = deduplicate_rows(dd.rows)]
    /\ UNCHANGED cacheVars
    /\ UNCHANGED <<px, net>>
    /\ UNCHANGED nz

\* deduplicate_rows applied to its own output
DedupAgain ==
    /\ dd.stage = "deduplicated"
    /\ dd' = [dd EXCEPT !.stage = "again", !.again = deduplicate_rows(dd.out)]
    /\ UNCHANGED cacheVars
    /\ UNCHANGED <<px, net>>
    /\ UNCHANGED nz

DedupNext ==
    \/ \E row \in DedupRows : DedupInput(row)
    \/ DedupRun
    \/ DedupAgain

DedupSpec == Init /\ [][DedupNext]_vars

\* C9: deduplicate_rows is idempotent: applied to its own output it returns
\* the same rows, with the same field values, in the same order.
C9_DedupIdempotent == dd.stage = "again" => dd.again = dd.out

\* C9 witness: the second application was given an output in which two rows
\* of one key (their teams differing in case) had been merged into one.
C9_Witness ==
    /\ dd.stage = "again"
    /\ Len(dd.rows) = 2 /\ Len(dd.out) = 1
    /\ dd.rows[1].team # dd.rows[2].team
    /\ dd.out[1].reason = <<"Knee", "Soreness", "Knee">>

Keyed(row) == ~(RowKey(row)[2] = <<>> \/ RowKey(row)[2] = Txt(NYS))

Count(rows, row) == Cardinality({i \in 1..Len(rows) : rows[i] = row})

\* C10: in the output no two rows with a non-empty, non-sentinel player share
\* the key (team upper-cased, player upper-cased, gameTime); every input row
\* whose player is empty or the sentinel is in the output as often as in the
\* input, unchanged.
C10_DedupKeysUnique ==
    dd.stage # "input" =>
        /\ \A i, j \in 1..Len(dd.out) :
              (i # j /\ Keyed(dd.out[i]) /\ Keyed(dd.out[j])) => RowKey(dd.out[i]) # RowKey(dd.out[j])
        /\ \A i \in 1..Len(dd.rows) :
              ~Keyed(dd.rows[i]) => Count(dd.out, dd.rows[i]) = Count(dd.rows, dd.rows[i])

\* C10 witness: two equal sentinel rows of one team are both in the output.
C10_Witness ==
    /\ dd.stage = "deduplicated"
    /\ Len(dd.out) = 2
    /\ dd.out[1] = dd.out[2] /\ dd.out[1].player = Txt(NYS)

(***************************************************************************)
(* Part IV.  normalize_rows                                                *)
(***************************************************************************)

\* dict.get(k, default), d[k] = v, d.pop(k, None)
DictGet(d, k, default) == IF k \in DOMAIN d THEN d[k] ELSE default
DictSet(d, k, v) == [x \in DOMAIN d \cup {k} |-> IF x = k THEN v ELSE d[x]]
DictPop(d, k) == [x \in DOMAIN d \ {k} |-> d[x]]

\* `a or b` on strings (None and "" are both falsy)
Or(a, b) == IF a # <<>> THEN a ELSE b

\* len(text): the characters of the tokens and the spaces between them.
RECURSIVE CharLen(_)
CharLen(text) ==
    IF text = <<>> THEN 0
    ELSE IF Len(text) = 1 THEN Len(text[1])
    ELSE Len(text[1]) + 1 + CharLen(Tail(text))

\* reason_prefixes
ReasonPrefixes ==
    {"G League", "Injury/Illness", NYS, "Not With Team",
     "Return to Competition Reconditioning"}
\* re.finditer(re.escape(prefix), text, flags=re.I)
ReasonPrefixesAnyCase == ReasonPrefixes \cup {"not yet submitted"}
\* reason_pattern: the tokens holding one of its words
ReasonPatternTokens == {"Injury/Illness", "G League", "Not With Team"}
\* reason_keyword_regex: the tokens holding one of its words, in any case
KeywordTokens ==
    {"Knee", "knee", "Soreness", "Sprain", "Recovery", "Injury/Illness",
     "Return to Competition Reconditioning"}
\* The tokens ending in a word of should_append_reason's `(...)$`
OpenEndTokens ==
    {"Soreness", "Sprain", "Recovery", "Injury/Illness",
     "Return to Competition Reconditioning"}
\* The tokens whose first character is a lower-case letter
LowerStartTokens == {"knee", "tbd", "mia@was", "not yet submitted"}
\* The tokens whose lower-case form starts with "injury report"
HeaderTitleTokens == {"Injury Report", "INJURY REPORT"}
\* The texts the pattern of is_header_row matches at their start: its raw
\* string doubles every backslash, so \\d{2} is a backslash and two letters d.
BackslashPatternTokens == {"\\dd/\\dd/\\dd\\s\\dd:\\dd\\AM"}

starts_with_reason_prefix(text) == text # <<>> /\ text[1] \in ReasonPrefixes

split_reason_on_prefixes(text) ==
    LET t == Strip(text)
        positions == {i \in 1..Len(t) : t[i] \in ReasonPrefixesAnyCase}
        first == Min(positions)
        first0 == IF Strip(SubSeq(t, 1, first - 1)) = <<>> THEN 1 ELSE first
        second == Min(positions \ {first})
        SplitAt(k) == <<Strip(SubSeq(t, 1, k - 1)), Strip(SubSeq(t, k, Len(t)))>>
    IN  IF text = <<>> THEN <<text, <<>>>>
        ELSE IF positions = {} THEN <<t, <<>>>>
        ELSE IF first0 > 1 THEN SplitAt(first0)
        ELSE IF Cardinality(positions) < 2 THEN <<t, <<>>>>
        ELSE SplitAt(second)

looks_like_player_blob(text) ==
    LET compact == normalize_spaces(text)
    IN  /\ compact # <<>>
        /\ \/ Matches(compact, "player_status_blob_regex")
           \/ Matches(compact, "page_marker_regex")
           \/ Matches(compact, "matchup_blob_regex")
           \/ Matches(compact, "date_or_time_blob_regex")
           \/ /\ CountMatches(compact, "status_blob_regex") >= 2
              /\ CountMatches(compact, "comma_name_regex") >= 1

\* The regular expressions trim_reason_noise cuts at.
CutRegexes ==
    {"page_marker_regex", "date_or_time_blob_regex", "matchup_blob_regex",
     "player_status_blob_regex"}

\* compact[:min(cut_positions)].strip(), when there is a position to cut at
CutAt(compact, cut_positions) ==
    IF cut_positions # {}
    THEN Strip(SubSeq(compact, 1, Min(cut_positions) - 1))
    ELSE compact

\* page_marker_regex.sub("", compact).strip(" ;,-")
DropPageMarkers(compact) ==
    StripTokens(SelectSeq(compact, LAMBDA tok : tok \notin PageMarkers),
                {Blank} \cup PunctTokens)

\* if compact.upper().replace(" ", "") == "NOTYETSUBMITTED": return "NOT YET SUBMITTED"
SentinelSpelling(compact) == IF Upper(compact) = Txt(NYS) THEN Txt(NYS) ELSE compact

\* trim_reason_noise on the text with its whitespace normalized.
TrimCompact(compact) ==
    IF compact = <<>> THEN <<>>
    ELSE IF player_status_blob_regex(compact, 1) THEN <<>>
    ELSE SentinelSpelling(DropPageMarkers(
             CutAt(compact, {FirstMatch(compact, re) : re \in CutRegexes} \ {0, 1})))

trim_reason_noise(text) == TrimCompact(normalize_spaces(text))

looks_like_reason_continuation(text) ==
    /\ text # <<>>
    /\ \/ starts_with_reason_prefix(text)
       \/ \E i \in 1..Len(text) : text[i] \in KeywordTokens

should_append_reason(prev_reason, continuation) ==
    /\ prev_reason # <<>>
    /\ continuation # <<>>
    /\ \/ continuation[1] \in LowerStartTokens
       \/ prev_reason[Len(prev_reason)] \in {";", "-"}
       \/ prev_reason[Len(prev_reason)] \in OpenEndTokens

is_header_row(team_value, player_value) ==
    LET team_text == Strip(team_value)
        player_text == Strip(player_value)
    IN  \/ team_text # <<>> /\ team_text[1] \in HeaderTitleTokens
        \/ player_text # <<>> /\ player_text[1] \in BackslashPatternTokens

\* game_time_by_matchup[matchup_key] = time
RecordTimeFirstOnly(map, matchup_key, time) ==
    IF matchup_key \in DOMAIN map THEN map ELSE DictSet(map, matchup_key, time)
RecordTime(map, matchup_key, time) == DictSet(map, matchup_key, time)

\* The time given to a row that carries none: the matchup's, else the last
\* real one, else the last one, else "TBD".
InferTimeIgnoringMatchup(map, matchup_key, last_real_game_time, last_game_time) ==
    Or(Or(last_real_game_time, last_game_time), Txt("TBD"))
InferTime(map, matchup_key, last_real_game_time, last_game_time) ==
    LET by_matchup == IF matchup_key # <<>> THEN DictGet(map, matchup_key, <<>>) ELSE <<>>
        inferred_time == Or(Or(by_matchup, last_real_game_time), last_game_time)
    IN  Or(inferred_time, Txt("TBD"))

\* The outcome of one iteration: the loop state and the path the row took.
Outcome(st, path) == [st |-> st, path |-> path]

\* `if team_value and team_value.upper() != nys_marker`
TeamResolvedNotEmpty(team_value) == team_value # <<>>

TeamResolved(team_value) == team_value # <<>> /\ Upper(team_value) # Txt(NYS)

\* The "NOT YET SUBMITTED" branch.
SentinelRow(st, row, game_date) ==
    LET team_value == Or(Strip(row.team), st.last_team)
        nys_matchup == Or(Strip(row.matchup), st.last_matchup)
        matchup_key == Upper(nys_matchup)
        own == Strip(row.gameTime)
        by_matchup == IF own = <<>> \/ Upper(own) = Txt("TBD")
                      THEN (IF matchup_key # <<>>
                            THEN DictGet(st.game_time_by_matchup, matchup_key, <<>>)
                            ELSE <<>>)
                      ELSE own
        resolved_time == IF by_matchup = <<>> \/ Upper(by_matchup) = Txt("TBD")
                         THEN Or(Or(st.last_real_game_time, st.last_game_time), Txt("TBD"))
                         ELSE by_matchup
        st1 == IF resolved_time # <<>> /\ Upper(resolved_time) # Txt("TBD")
               THEN [st EXCEPT
                        !.game_time_by_matchup =
                            IF matchup_key # <<>> THEN RecordTime(@, matchup_key, resolved_time)
                            ELSE @,
                        !.last_real_game_time = resolved_time]
               ELSE st
        sentinel == [gameTime |-> resolved_time, matchup |-> nys_matchup,
                     team |-> team_value, player |-> Txt(NYS), status |-> Txt(NYS),
                     reason |-> Txt(NYS), page |-> row.page, rowIndex |-> row.rowIndex,
                     gameDate |-> game_date]
    IN  IF TeamResolved(team_value)
        THEN Outcome([st1 EXCEPT !.normalized = Append(@, sentinel)], "sentinel")
        ELSE Outcome(st1, "sentinel_skipped")

\* Status recovery from the player field: <<player, status>>.
RecoverStatus(player, status) ==
    LET hits == {i \in 1..Len(player) : player[i] \in StatusTokens}
        found == player[Min(hits)]
    IN  IF status = <<>> /\ player # <<>> /\ hits # {}
        THEN <<StripTokens(SelectSeq(player, LAMBDA tok : tok # found), {Blank, "-"}),
               Txt(found)>>
        ELSE <<player, status>>

\* Reason recovery from the player field: <<player, reason>>.
RecoverReason(player, reason) ==
    LET hits == {i \in 1..Len(player) : player[i] \in ReasonPatternTokens}
        start == Min(hits)
    IN  IF reason # <<>> \/ player = <<>> THEN <<player, reason>>
        ELSE IF hits # {}
        THEN <<StripTokens(SubSeq(player, 1, start - 1), {Blank, "-"}),
               StripTokens(SubSeq(player, start, Len(player)), {Blank, "-"})>>
        ELSE IF starts_with_reason_prefix(player) THEN <<<<>>, player>>
        ELSE <<player, reason>>

\* prev["reason"] = f"{prev_reason} {text}".strip()
AppendToPrevOverwriting(st, text) ==
    [st EXCEPT !.normalized[Len(st.normalized)].reason = text]
AppendToPrev(st, text) ==
    [st EXCEPT !.normalized[Len(st.normalized)].reason = Join(@, text)]

\* What becomes of the text of a row with no player, status or reason:
\* appended to the previous row of the page, or held as pending.
HoldOrAppend(st, row, raw_team, possible_reason) ==
    IF ~(/\ possible_reason # <<>>
         /\ CharLen(possible_reason) <= 120
         /\ looks_like_reason_continuation(possible_reason)
         /\ ~looks_like_player_blob(possible_reason))
    THEN Outcome(st, "empty_dropped")
    ELSE IF /\ Len(st.normalized) > 0
            /\ st.normalized[Len(st.normalized)].page = row.page
            /\ \/ should_append_reason(st.normalized[Len(st.normalized)].reason,
                                       possible_reason)
               \/ looks_like_reason_continuation(possible_reason)
    THEN Outcome(AppendToPrev(st, possible_reason), "empty_appended")
    ELSE Outcome([st EXCEPT
                     !.pending_reason_by_page = DictSet(@, row.page, possible_reason),
                     !.pending_team_by_page = DictSet(@, row.page, raw_team)],
                 "empty_pending")

\* A row with no player, status or reason: its team and matchup text may be
\* the continuation of a reason.
EmptyRow(st, row, raw_team) ==
    HoldOrAppend(st, row, raw_team, trim_reason_noise(Strip(row.team \o row.matchup)))

\* Team, matchup and time context: the loop state and the row after it.
Context(st, row) ==
    LET team_blank == Strip(row.team) = <<>>
        team_value == Strip(row.team)
        matchup_blank == Strip(row.matchup) = <<>>
        matchup_value == Strip(row.matchup)
        row_team == IF team_blank THEN st.last_team ELSE row.team
        row_matchup == IF matchup_blank THEN st.last_matchup ELSE row.matchup
        matchup_key == Upper(Strip(row_matchup))
        time_value == Strip(row.gameTime)
        concrete == time_value # <<>> /\ Upper(time_value) \notin {Txt("TBD"), Txt(NYS)}
        st1 == [st EXCEPT
                   !.last_team = IF ~team_blank /\ Upper(team_value) # Txt(NYS)
                                 THEN team_value ELSE @,
                   !.last_matchup = IF ~matchup_blank /\ Upper(matchup_value) # Txt(NYS)
                                    THEN matchup_value ELSE @]
        st2 == IF concrete
               THEN [st1 EXCEPT
                        !.last_game_time = time_value,
                        !.last_real_game_time = time_value,
                        !.game_time_by_matchup =
                            IF matchup_key # <<>> THEN RecordTime(@, matchup_key, time_value)
                            ELSE @]
               ELSE st1
        row_time == IF concrete THEN time_value
                    ELSE InferTime(st.game_time_by_matchup, matchup_key,
                                   st.last_real_game_time, st.last_game_time)
    IN  [st |-> st2,
         row |-> [row EXCEPT !.team = row_team, !.matchup = row_matchup,
                             !.gameTime = row_time]]

\* What becomes of the trimmed reason of a row with no player and no status.
Continuation(st, row, trimmed, current_team) ==
    IF trimmed = <<>> \/ looks_like_player_blob(trimmed)
    THEN Outcome(st, "reason_noise_dropped")
    ELSE IF /\ Len(st.normalized) > 0
            /\ st.normalized[Len(st.normalized)].page = row.page
            /\ \/ current_team = <<>>
               \/ st.normalized[Len(st.normalized)].team = current_team
            /\ should_append_reason(st.normalized[Len(st.normalized)].reason, trimmed)
    THEN Outcome(AppendToPrev(st, trimmed), "reason_appended")
    ELSE IF looks_like_reason_continuation(trimmed)
    THEN Outcome([st EXCEPT
                     !.pending_reason_by_page = DictSet(@, row.page, trimmed),
                     !.pending_team_by_page = DictSet(@, row.page, current_team)],
                 "reason_pending")
    ELSE Outcome(st, "reason_dropped")

\* A row with a reason but no player and no status.
ReasonOnly(st, row, reason, raw_reason_original, current_team) ==
    IF looks_like_player_blob(normalize_spaces(raw_reason_original))
    THEN Outcome(st, "reason_blob_dropped")
    ELSE Continuation(st, row, trim_reason_noise(reason), current_team)

\* if not reason or not starts_with_reason_prefix(reason) or looks_like_reason_continuation(reason)
TakesHeldReason(reason) ==
    \/ reason = <<>>
    \/ ~starts_with_reason_prefix(reason)
    \/ looks_like_reason_continuation(reason)

\* The pending reason of the page is put before the row's reason.
ApplyPending(st, page_key, reason, current_team) ==
    IF page_key \notin DOMAIN st.pending_reason_by_page THEN [st |-> st, reason |-> reason]
    ELSE IF /\ st.pending_reason_by_page[page_key] # <<>>
            /\ ~looks_like_player_blob(st.pending_reason_by_page[page_key])
            /\ \/ DictGet(st.pending_team_by_page, page_key, <<>>) = <<>>
               \/ DictGet(st.pending_team_by_page, page_key, <<>>) = current_team
    THEN [st |-> [st EXCEPT !.pending_reason_by_page = DictPop(@, page_key),
                            !.pending_team_by_page = DictPop(@, page_key)],
          reason |-> IF TakesHeldReason(reason)
                     THEN trim_reason_noise(Join(st.pending_reason_by_page[page_key], reason))
                     ELSE reason]
    ELSE [st |-> st, reason |-> reason]

\* The carryover of the page is put before the row's reason.  `was` is the
\* loop state and the reason so far.
ApplyCarryover(was, page_key, player, status) ==
    IF page_key \notin DOMAIN was.st.carryover_reason_by_page THEN was
    ELSE IF /\ was.st.carryover_reason_by_page[page_key] # <<>>
            /\ ~looks_like_player_blob(was.st.carryover_reason_by_page[page_key])
            /\ (player # <<>> \/ status # <<>>)
            /\ TakesHeldReason(was.reason)
    THEN [st |-> [was.st EXCEPT !.carryover_reason_by_page = DictPop(@, page_key),
                                !.carryover_team_by_page = DictPop(@, page_key)],
          reason |-> trim_reason_noise(
                         Join(was.st.carryover_reason_by_page[page_key], was.reason))]
    ELSE was

\* if spill and not looks_like_player_blob(spill): the tail is held for the page
HoldSpill(st, page_key, reason, spill, explicit_team) ==
    [st |-> IF spill # <<>> /\ ~looks_like_player_blob(spill)
            THEN [st EXCEPT
                     !.carryover_reason_by_page = DictSet(@, page_key, spill),
                     !.carryover_team_by_page = DictSet(@, page_key, explicit_team)]
            ELSE st,
     reason |-> reason]

\* reason = trim_reason_noise(reason); spill = trim_reason_noise(spill)
TrimParts(st, page_key, parts, explicit_team) ==
    HoldSpill(st, page_key, trim_reason_noise(parts[1]), trim_reason_noise(parts[2]),
              explicit_team)

\* The reason is trimmed and cut at a reason prefix; the tail is held.
SplitAndHold(was, page_key, explicit_team) ==
    IF was.reason = <<>> THEN was
    ELSE TrimParts(was.st, page_key,
                   split_reason_on_prefixes(trim_reason_noise(was.reason)), explicit_team)

\* The end of the iteration: a row with nothing left is dropped.
EmitUndated(was, row, player, status, game_date) ==
    IF player = <<>> /\ status = <<>> /\ was.reason = <<>>
    THEN Outcome(was.st, "blank_dropped")
    ELSE Outcome([was.st EXCEPT !.normalized =
                     Append(@, [row EXCEPT !.player = player, !.status = status,
                                           !.reason = was.reason])],
                 "emitted")

Emit(was, row, player, status, game_date) ==
    IF player = <<>> /\ status = <<>> /\ was.reason = <<>>
    THEN Outcome(was.st, "blank_dropped")
    ELSE Outcome([was.st EXCEPT !.normalized =
                     Append(@, [row EXCEPT !.player = player, !.status = status,
                                           !.reason = was.reason, !.gameDate = game_date])],
                 "emitted")

\* The iteration from the context on: ctx is the loop state and the row
\* after the team, matchup and time context.
InContextEmittingReasonOnly(ctx, row, player, status, reason, game_date) ==
    Emit(SplitAndHold(
             ApplyCarryover(
                 ApplyPending(ctx.st, row.page, reason,
                              Or(ctx.row.team, ctx.st.last_team)),
                 row.page, player, status),
             row.page, Strip(row.team)),
         ctx.row, player, status, game_date)

InContext(ctx, row, player, status, reason, game_date) ==
    IF player = <<>> /\ status = <<>>
    THEN ReasonOnly(ctx.st, ctx.row, reason, row.reason,
                    Or(ctx.row.team, ctx.st.last_team))
    ELSE Emit(SplitAndHold(
                  ApplyCarryover(
                      ApplyPending(ctx.st, row.page, reason,
                                   Or(ctx.row.team, ctx.st.last_team)),
                      row.page, player, status),
                  row.page, Strip(row.team)),
              ctx.row, player, status, game_date)

\* The iteration after status and reason recovery from the player field.
Recovered(st, row, player, status, reason, game_date) ==
    IF player = <<>> /\ status = <<>> /\ reason = <<>>
    THEN EmptyRow(st, row, Strip(row.team))
    ELSE InContext(Context(st, row), row, player, status, reason, game_date)

\* The iteration of a row that is neither a header nor a sentinel: ps is
\* <<player, status>> after status recovery.
Ordinary(st, row, ps, reason, game_date) ==
    Recovered(st, row, RecoverReason(ps[1], reason)[1], ps[2],
              RecoverReason(ps[1], reason)[2], game_date)

\* One iteration of `for row in rows`.
NormStep(st, row, game_date) ==
    IF is_header_row(Strip(row.team), row.player) THEN Outcome(st, "header")
    ELSE IF \/ Upper(Strip(row.player)) = Txt(NYS)
            \/ Upper(Strip(row.status)) = Txt(NYS)
    THEN SentinelRow(st, row, game_date)
    ELSE Ordinary(st, row, RecoverStatus(row.player, row.status),
                  IF row.reason # <<>> THEN trim_reason_noise(row.reason) ELSE row.reason,
                  game_date)

---------------------------------------------------------------------------
\* normalize_rows applied to every list of at most MaxNormRows rows, one row
\* at a time.  nz holds the loop state after the rows read so far and, as
\* history, the path the last row took and the times the rows of each matchup
\* carried.

MaxNormRows == 3

\* The game_date argument.
GameDate == Txt("02/08/2026")

\* The matchup a row is resolved to: its own, else the last one seen.
ResolvedMatchupKey(st, row) == Upper(Or(Strip(row.matchup), st.last_matchup))

\* The paths that end before the matchup and time of the row are looked at.
EarlyPaths == {"header", "empty_dropped", "empty_appended", "empty_pending"}

\* A game time proper: not empty, not "TBD", not the sentinel literal.
IsConcreteTime(time) == time # <<>> /\ Upper(time) \notin {Txt("TBD"), Txt(NYS)}

\* Whether the row's own time is written to game_time_by_matchup: the
\* sentinel branch tests it against "" and "TBD", the ordinary one also
\* against the sentinel literal.
CarriesTime(sentinel, time) ==
    /\ time # <<>>
    /\ Upper(time) # Txt("TBD")
    /\ (sentinel \/ Upper(time) # Txt(NYS))

\* The history after a row: key is its matchup, own its own time.
Recorded(z, key, own, sentinel) ==
    [seen |-> IF key # <<>> /\ IsConcreteTime(own)
              THEN DictSet(z.hist.seen, key, DictGet(z.hist.seen, key, {}) \cup {own})
              ELSE z.hist.seen,
     first |-> IF key # <<>> /\ IsConcreteTime(own) /\ key \notin DOMAIN z.hist.first
               THEN DictSet(z.hist.first, key, own)
               ELSE z.hist.first,
     recorded |-> IF key # <<>> /\ CarriesTime(sentinel, own)
                  THEN DictSet(z.hist.recorded, key, own)
                  ELSE z.hist.recorded,
     held |-> z.hist.held]

\* The carryover steps of an iteration that reaches them, seen from outside:
\* whether the row took the carryover of its page, the reason it had when it
\* came to the split, whether a tail was held, and the team it belongs to.
CarrySplit(pend, carried, page_key, current_team) ==
    [taken |-> carried # pend,
     held |-> /\ carried.reason # <<>>
              /\ trim_reason_noise(
                     split_reason_on_prefixes(trim_reason_noise(carried.reason))[2]) # <<>>
              /\ ~looks_like_player_blob(trim_reason_noise(
                     split_reason_on_prefixes(trim_reason_noise(carried.reason))[2])),
     accepted |-> trim_reason_noise(carried.reason),
     team |-> current_team, page |-> page_key]

CarryPending(pend, page_key, player, status, current_team) ==
    CarrySplit(pend, ApplyCarryover(pend, page_key, player, status), page_key, current_team)

CarryContext(ctx, row, player, status, reason) ==
    CarryPending(ApplyPending(ctx.st, row.page, reason, Or(ctx.row.team, ctx.st.last_team)),
                 row.page, player, status, Or(ctx.row.team, ctx.st.last_team))

CarryRecovered(st, row, ps, pr) ==
    CarryContext(Context(st, row), row, pr[1], ps[2], pr[2])

CarryOrdinary(st, row, ps, reason) ==
    CarryRecovered(st, row, ps, RecoverReason(ps[1], reason))

CarryTrace(st, row) ==
    CarryOrdinary(st, row, RecoverStatus(row.player, row.status),
                  IF row.reason # <<>> THEN trim_reason_noise(row.reason) ELSE row.reason)

\* The trace of the row, together with the team of the row whose tail the
\* page held before it; nothing for a row that does not reach these steps.
CarryOf(z, row, out) ==
    IF out.path = "emitted"
    THEN [taken |-> CarryTrace(z.st, row).taken, held |-> CarryTrace(z.st, row).held,
          accepted |-> CarryTrace(z.st, row).accepted,
          team |-> CarryTrace(z.st, row).team, page |-> row.page,
          from |-> DictGet(z.hist.held, row.page, <<>>)]
    ELSE [taken |-> FALSE, held |-> FALSE, accepted |-> <<>>, team |-> <<>>,
          page |-> row.page, from |-> <<>>]

\* The rows whose tails the pages hold: a tail taken leaves its page, a tail
\* held is entered under the page with the team of its row.
HeldAfter(held, carry) ==
    IF carry.held THEN DictSet(held, carry.page, <<carry.team>>)
    ELSE IF carry.taken THEN DictPop(held, carry.page)
    ELSE held

\* The state after a row whose iteration had the outcome `out`.
Observed(z, row, key, out) ==
    [st |-> out.st, n |-> z.n + 1,
     last |-> [path |-> out.path, key |-> key, own |-> Strip(row.gameTime),
               seen_before |-> DictGet(z.hist.seen, key, {}),
               recorded_before |-> DictGet(z.hist.recorded, key, <<>>),
               team |-> Strip(row.team), team_before |-> z.st.last_team,
               player |-> Strip(row.player),
               row |-> row,
               carry |-> CarryOf(z, row, out)],
     hist |-> [Recorded(z, key, Strip(row.gameTime),
                        out.path \in {"sentinel", "sentinel_skipped"})
                  EXCEPT !.held = HeldAfter(@, CarryOf(z, row, out))]]

\* The matchup of the row when its iteration got as far as resolving it.
KeyOf(z, row, out) ==
    Observed(z, row,
             IF out.path \in EarlyPaths THEN <<>> ELSE ResolvedMatchupKey(z.st, row),
             out)

\* The state after one more row.
NormAfter(z, row) == KeyOf(z, row, NormStep(z.st, row, GameDate))

\* Rows that differ in game time and matchup.
TimeValues == {Txt("07:00 (ET)"), Txt("08:30 (ET)"), Txt("TBD"), <<>>}
TimeMatchups == {Txt("MIA@WAS"), Txt("BOS@NYK"), <<>>}

PlayerRow(gameTime, matchup) ==
    RowOf(gameTime, matchup, Txt("Miami Heat"), Txt("Curry, Seth"), Txt("Out"),
          Txt("Knee"), 1, 0)

SentinelInput(gameTime, matchup) ==
    RowOf(gameTime, matchup, Txt("Miami Heat"), Txt(NYS), <<>>, <<>>, 1, 0)

TimeRows ==
    {PlayerRow(tm, m) : tm \in TimeValues, m \in TimeMatchups}
    \cup {SentinelInput(tm, m) : tm \in TimeValues, m \in TimeMatchups}
    \cup {PlayerRow(Txt(NYS), Txt("MIA@WAS")), SentinelInput(Txt(NYS), Txt("MIA@WAS")),
          PlayerRow(Txt("tbd"), Txt("mia@was")),
          RowOf(Txt("08:30 (ET)"), Txt("MIA@WAS"), Txt("Miami Heat"), <<>>, <<>>, <<>>, 1, 0)}

NormalizeTimeRow(row) ==
    /\ nz.n < MaxNormRows
    /\ nz' = NormAfter(nz, [row EXCEPT !.rowIndex = nz.n + 1])
    /\ UNCHANGED cacheVars
    /\ UNCHANGED <<px, net>>
    /\ UNCHANGED dd

NormTimeNext == \E row \in TimeRows : NormalizeTimeRow(row)

NormTimeSpec == Init /\ [][NormTimeNext]_vars

\* Rows that differ in reason, with and without a player and a status.
ReasonTexts ==
    {Txt("Knee"), Txt("knee"), Txt("Soreness"), <<>>,
     <<"MIA@WAS", "Knee">>, <<"Knee", "MIA@WAS">>,
     <<"02/08/2026", "Knee">>, <<"Page 1 of 3", "Knee">>,
     <<"James, LeBron", "Out">>, <<"Knee", "James, LeBron", "Out">>,
     <<"Injury/Illness", "Knee", "G League">>}

ReasonRows ==
    {RowOf(Txt("07:00 (ET)"), Txt("MIA@WAS"), Txt("Miami Heat"), Txt("Curry, Seth"),
           Txt("Out"), r, 1, 0) : r \in ReasonTexts}
    \cup {RowOf(<<>>, <<>>, <<>>, <<>>, <<>>, r, 1, 0) : r \in ReasonTexts}
    \cup {RowOf(<<>>, <<>>, <<>>, Txt("James, LeBron"), Txt("Questionable"), <<>>, 2, 0)}

NormalizeReasonRow(row) ==
    /\ nz.n < MaxNormRows
    /\ nz' = NormAfter(nz, [row EXCEPT !.rowIndex = nz.n + 1])
    /\ UNCHANGED cacheVars
    /\ UNCHANGED <<px, net>>
    /\ UNCHANGED dd

NormReasonNext == \E row \in ReasonRows : NormalizeReasonRow(row)

NormReasonSpec == Init /\ [][NormReasonNext]_vars

\* Rows that differ in team, sentinel rows and player rows.
SentinelTeams ==
    {<<>>, <<Blank>>, Txt("Miami Heat"), Txt(NYS), Txt("not yet submitted")}

SentinelRows ==
    {RowOf(Txt("07:00 (ET)"), Txt("MIA@WAS"), team, Txt(NYS), <<>>, <<>>, 1, 0) :
        team \in SentinelTeams}
    \cup {RowOf(<<>>, <<>>, team, <<Blank, "not yet submitted">>, <<>>, <<>>, 1, 0) :
        team \in SentinelTeams}
    \cup {RowOf(<<>>, <<>>, team, Txt("Curry, Seth"), Txt(NYS), Txt("Knee"), 1, 0) :
        team \in SentinelTeams}
    \cup {RowOf(Txt("07:00 (ET)"), Txt("MIA@WAS"), team, Txt("Curry, Seth"),
                Txt("Out"), Txt("Knee"), 1, 0) : team \in SentinelTeams}

NormalizeSentinelRow(row) ==
    /\ nz.n < MaxNormRows
    /\ nz' = NormAfter(nz, [row EXCEPT !.rowIndex = nz.n + 1])
    /\ UNCHANGED cacheVars
    /\ UNCHANGED <<px, net>>
    /\ UNCHANGED dd

NormSentinelNext == \E row \in SentinelRows : NormalizeSentinelRow(row)

NormSentinelSpec == Init /\ [][NormSentinelNext]_vars

\* Rows with and without a player, a status and a reason.
FieldPlayers == {<<>>, <<Blank>>, Txt("Curry, Seth"), Txt("Out"), Txt(NYS)}
FieldStatuses == {<<>>, Txt("Out")}
FieldReasons == {<<>>, Txt("Knee"), Txt("Page 1 of 3")}

FieldRows ==
    {RowOf(Txt("07:00 (ET)"), Txt("MIA@WAS"), Txt("Miami Heat"), player, status,
           reason, 1, 0) :
        player \in FieldPlayers, status \in FieldStatuses, reason \in FieldReasons}

NormalizeFieldRow(row) ==
    /\ nz.n < MaxNormRows
    /\ nz' = NormAfter(nz, [row EXCEPT !.rowIndex = nz.n + 1])
    /\ UNCHANGED cacheVars
    /\ UNCHANGED <<px, net>>
    /\ UNCHANGED dd

NormFieldNext == \E row \in FieldRows : NormalizeFieldRow(row)

NormFieldSpec == Init /\ [][NormFieldNext]_vars

\* rows = normalize_rows(deduplicate_rows(combined_rows), game_date): the
\* candidate rows of the extraction strategies, put through both stages.
MaxPipeRows == 3

RECURSIVE NormAll(_, _, _)
NormAll(z, rows, i) ==
    IF i > Len(rows) THEN z ELSE NormAll(NormAfter(z, rows[i]), rows, i + 1)

PipeTeams == {Txt("Miami Heat"), Txt("Boston Celtics"), <<>>}

PipeRows ==
    {RowOf(Txt("07:00 (ET)"), Txt("MIA@WAS"), team, Txt(NYS), <<>>, <<>>, 1, k) :
        team \in PipeTeams, k \in 1..2}
    \cup {RowOf(<<>>, <<>>, team, <<>>, Txt(NYS), <<>>, 1, k) :
        team \in PipeTeams, k \in 1..2}
    \cup {RowOf(Txt("07:00 (ET)"), Txt("MIA@WAS"), Txt("Miami Heat"), Txt("Curry, Seth"),
                Txt("Out"), Txt("Knee"), 1, k) : k \in 1..2}

\* A strategy emits one more candidate row.
PipeInput(row) ==
    /\ dd.stage = "input"
    /\ Len(dd.rows) < MaxPipeRows
    /\ dd' = [dd EXCEPT !.rows = Append(@, row)]
    /\ UNCHANGED cacheVars
    /\ UNCHANGED <<px, net>>
    /\ UNCHANGED nz

\* normalize_rows(deduplicate_rows(combined_rows), game_date)
PipeRun ==
    /\ dd.stage = "input"
    /\ dd' = [dd EXCEPT !.stage = "normalized", !.out = deduplicate_rows(dd.rows)]
    /\ nz' = NormAll(NormInit, deduplicate_rows(dd.rows), 1)
    /\ UNCHANGED cacheVars
    /\ UNCHANGED <<px, net>>

PipeNext ==
    \/ \E row \in PipeRows : PipeInput(row)
    \/ PipeRun

PipeSpec == Init /\ [][PipeNext]_vars

\* The row the last iteration emitted.
LastEmitted == nz.st.normalized[Len(nz.st.normalized)]
EmittedNow == nz.last.path \in {"emitted", "sentinel"}

\* The four noise predicates, anywhere in the text.
ReasonIsNoisy(reason) ==
    LET compact == normalize_spaces(reason)
    IN  \/ Matches(compact, "player_status_blob_regex")
        \/ Matches(compact, "page_marker_regex")
        \/ Matches(compact, "matchup_blob_regex")
        \/ Matches(compact, "date_or_time_blob_regex")

\* C6: every row emitted by normalize_rows has a reason that matches none of
\* the four noise predicates (player/status blob, page marker, matchup code,
\* date/time token), wherever in the reason the fragment occurs.
C6_EmittedReasonsFreeOfNoise ==
    \A i \in 1..Len(nz.st.normalized) : ~ReasonIsNoisy(nz.st.normalized[i].reason)

OwnTimeMissing == nz.last.own = <<>> \/ Upper(nz.last.own) = Txt("TBD")

IsSentinelRecord(r) ==
    r.player = Txt(NYS) /\ r.status = Txt(NYS) /\ r.reason = Txt(NYS)

IsRealTeam(team) == Strip(team) # <<>> /\ Upper(Strip(team)) # Txt(NYS)

\* C11: normalize_rows never emits a sentinel row (player = status = reason =
\* "NOT YET SUBMITTED") whose team is empty or is the sentinel literal; the
\* sentinel row an input row produces carries the row's own team, else the
\* last-known team, and that team is a real one.
C11_SentinelHasResolvedTeam ==
    /\ \A i \in 1..Len(nz.st.normalized) :
          IsSentinelRecord(nz.st.normalized[i]) => IsRealTeam(nz.st.normalized[i].team)
    /\ nz.last.path = "sentinel" =>
          /\ IsSentinelRecord(LastEmitted)
          /\ LastEmitted.team = Or(nz.last.team, nz.last.team_before)
          /\ IsRealTeam(Or(nz.last.team, nz.last.team_before))

\* A sentinel row with no team of its own is emitted with the last-known team,
\* after an earlier row was not emitted.
C11_Witness ==
    /\ nz.last.path = "sentinel"
    /\ nz.last.team = <<>>
    /\ nz.n = MaxNormRows
    /\ Len(nz.st.normalized) < nz.n
\* C12: after deduplicate_rows and normalize_rows the emitted rows hold at most
\* one sentinel record per team, however many candidate rows with
\* "NOT YET SUBMITTED" the strategies produced for that team.
C12_OneSentinelPerTeam ==
    dd.stage = "normalized" =>
        \A i, j \in 1..Len(nz.st.normalized) :
            /\ i # j
            /\ IsSentinelRecord(nz.st.normalized[i])
            /\ IsSentinelRecord(nz.st.normalized[j])
            => nz.st.normalized[i].team # nz.st.normalized[j].team
\* C13: every row emitted by normalize_rows has at least one of player,
\* status, reason non-empty and carries the game_date argument of the run as
\* its gameDate, sentinel rows included.
C13_EmittedRowsFilledAndDated ==
    \A i \in 1..Len(nz.st.normalized) :
        /\ \/ nz.st.normalized[i].player # <<>>
           \/ nz.st.normalized[i].status # <<>>
           \/ nz.st.normalized[i].reason # <<>>
        /\ nz.st.normalized[i].gameDate = GameDate

\* A sentinel row and a row with a status only were emitted, and a row was
\* dropped.
C13_Witness ==
    /\ Len(nz.st.normalized) < nz.n
    /\ \E i \in 1..Len(nz.st.normalized) : IsSentinelRecord(nz.st.normalized[i])
    /\ \E i \in 1..Len(nz.st.normalized) :
          /\ nz.st.normalized[i].player = <<>>
          /\ nz.st.normalized[i].status = Txt("Out")
          /\ nz.st.normalized[i].reason = <<>>
(***************************************************************************)
(* Part V.  The link functions                                             *)
(*                                                                         *)
(* parse_pdf_time_parts, parse_pdf_datetime, parse_pdf_time_label and      *)
(* prefer_link are pure; px records the one call a behaviour makes, with   *)
(* its arguments and its result.                                           *)
(***************************************************************************)

\* Local zones of the process, in seconds east of UTC: UTC-12, UTC, UTC+14.
LocalUtcOffsets == {-43200, 0, 50400}

\* File names Injury-Report_<date>_<HH><sep><MM><meridiem>.pdf: dates on the
\* calendar and off it, before, at and after the epoch; hours and minutes in
\* and out of range; the hour with and without its leading zero.
NameDates ==
    {<<2026, 2, 8>>, <<2026, 2, 30>>, <<2024, 2, 29>>, <<2026, 13, 1>>,
     <<1969, 12, 31>>, <<1970, 1, 1>>, <<1970, 1, 2>>}
NameHours == {0, 3, 11, 12, 13}
NameMinutes == {0, 45, 59, 60}
Separators == {"-", "_", ":"}
Meridiems == {"AM", "PM", "am", "Pm"}

HourChars(h, padded) == IF padded \/ h >= 10 THEN Pad2(h) ELSE <<DigitChars[h + 1]>>

\* Time parts that do not follow HH<sep>MM: a character outside the class, no
\* digit, more than 8 characters, the hour alone, no time at all.
OddTimes ==
    {<<"0", "3", ".", "4", "5">>, <<"_">>, <<"7">>, <<>>,
     <<"0", "3", "-", "4", "5", "-", "0", "0", "-">>}
OddMeridiems == {"AM", "XM"}

\* What the three functions return for one URL in one local zone.
Parsed(url, utc_offset) ==
    [url |-> url, utc_offset |-> utc_offset,
     parts |-> parse_pdf_time_parts(url),
     ts |-> parse_pdf_datetime_local(url, utc_offset),
     label |-> parse_pdf_time_label(url)]

ParseName(date, h, m, sep, meridiem, padded, utc_offset) ==
    /\ px.op = "none"
    /\ px' = [op |-> "name", date |-> date, hour |-> h, minute |-> m, sep |-> sep,
              meridiem |-> meridiem, padded |-> padded,
              out |-> Parsed(FileUrl(date, HourChars(h, padded) \o <<sep>> \o Pad2(m),
                                     meridiem, "official.nba.com"),
                             utc_offset)]
    /\ UNCHANGED cacheVars
    /\ UNCHANGED <<dd, nz, net>>

ParseOdd(date, raw, meridiem, utc_offset) ==
    /\ px.op = "none"
    /\ px' = [op |-> "odd", date |-> date, raw |-> raw, meridiem |-> meridiem,
              out |-> Parsed(FileUrl(date, raw, meridiem, "official.nba.com"), utc_offset)]
    /\ UNCHANGED cacheVars
    /\ UNCHANGED <<dd, nz, net>>

\* The links a page may show or a payload may hold.
UrlOld == UrlOf(<<1969, 12, 31>>, <<0, 3, 4, 5>>, "AM", "official.nba.com")
UrlNoDate == UrlOf(<<2026, 2, 30>>, <<0, 3, 4, 5>>, "AM", "official.nba.com")
LinkChoices ==
    {UrlEarly, UrlLate, UrlBadHour, UrlOld, UrlNoDate,
     fallback_pdf_url(UrlEarly), fallback_pdf_url(UrlLate)}

\* The freshness probe of get_cached_report: cached_url is the pdfUrl of the
\* cached payload ("" when it has none), link what fetch_latest_pdf_link returned.
ProbeLink(cached_url, link) ==
    /\ px.op = "none"
    /\ px' = [op |-> "probe", cached_url |-> cached_url, link |-> link,
              cached_ts |-> parse_pdf_datetime(cached_url),
              latest_ts |-> parse_pdf_datetime(link.url),
              newer |-> IsNewer(link.kind = "found", parse_pdf_datetime(link.url),
                                parse_pdf_datetime(cached_url))]
    /\ UNCHANGED cacheVars
    /\ UNCHANGED <<dd, nz, net>>

\* "ak-static.cms.nba.com" in link
OnMirror(link) == link.host = "ak-static.cms.nba.com"

\* key=lambda link: (parse_pdf_datetime(link), "ak-static.cms.nba.com" in link)
LinkKeyLessNoMirror(a, b) == parse_pdf_datetime(a) < parse_pdf_datetime(b)

LinkKeyLess(a, b) ==
    \/ parse_pdf_datetime(a) < parse_pdf_datetime(b)
    \/ /\ parse_pdf_datetime(a) = parse_pdf_datetime(b)
       /\ ~OnMirror(a) /\ OnMirror(b)

\* sorted(links, key=..., reverse=True): descending, links of equal key in the
\* order of the list.
RankInsert(ranked, link) ==
    LET before == {i \in 1..Len(ranked) : ~LinkKeyLess(ranked[i], link)}
        k == IF before = {} THEN 0 ELSE CHOOSE i \in before : \A j \in before : j <= i
    IN  SubSeq(ranked, 1, k) \o <<link>> \o SubSeq(ranked, k + 1, Len(ranked))

RECURSIVE Ranked(_, _, _)
Ranked(links, i, ranked) ==
    IF i > Len(links) THEN ranked
    ELSE Ranked(links, i + 1, RankInsert(ranked, links[i]))

\* prefer_link: None for no links, else ranked[0]
prefer_link(links) == IF links = <<>> THEN NoUrl ELSE Ranked(links, 1, <<>>)[1]

MaxLinks == 3

LinkLists == UNION {[1..n -> LinkChoices] : n \in 0..MaxLinks}

PreferLink(links) ==
    /\ px.op = "none"
    /\ px' = [op |-> "prefer", links |-> links, ranked |-> Ranked(links, 1, <<>>),
              result |-> prefer_link(links)]
    /\ UNCHANGED cacheVars
    /\ UNCHANGED <<dd, nz, net>>

LinkNext ==
    \/ \E date \in NameDates, h \in NameHours, m \in NameMinutes, sep \in Separators,
          meridiem \in Meridiems, padded \in BOOLEAN, utc_offset \in LocalUtcOffsets :
          ParseName(date, h, m, sep, meridiem, padded, utc_offset)
    \/ \E date \in NameDates, raw \in OddTimes, meridiem \in OddMeridiems,
          utc_offset \in LocalUtcOffsets : ParseOdd(date, raw, meridiem, utc_offset)
    \/ \E cached_url \in LinkChoices \cup {NoUrl},
          link \in {[kind |-> "found", url |-> u] : u \in LinkChoices}
                   \cup {[kind |-> "none", url |-> NoUrl]} :
          ProbeLink(cached_url, link)
    \/ \E links \in LinkLists : PreferLink(links)

LinkSpec == Init /\ [][LinkNext]_vars
---------------------------------------------------------------------------
\* Claims about the link functions.

\* parse_pdf_datetime returns an integer, and 0 for a name that does not match,
\* an hour outside 1..12, a minute outside 0..59, or a date off the calendar.
ParseFailureGivesZero ==
    /\ px.op = "name" =>
          /\ px.out.ts \in Int
          /\ (px.hour \notin 1..12 \/ px.minute \notin 0..59 \/ ~ValidDate(px.date))
                => px.out.ts = 0
    /\ px.op = "odd" =>
          /\ px.out.ts \in Int
          /\ ~px.out.url.conv => px.out.ts = 0

\* C14: for every URL parse_pdf_datetime returns an integer, 0 when the file
\* name does not match the convention, the hour is outside 1..12, the minute is
\* outside 0..59 or the date is not on the calendar; and the freshness probe
\* never treats a link with timestamp 0 as newer than the cached link, whatever
\* link is cached.
C14_ZeroIsNeverNewer ==
    /\ ParseFailureGivesZero
    /\ (px.op = "probe" /\ px.latest_ts = 0) => ~px.newer
\* A call on a file name that follows the convention: a date on the calendar,
\* the hour in 1..12, the minute in 0..59.
ConventionalName ==
    /\ px.op = "name"
    /\ ValidDate(px.date)
    /\ px.hour \in 1..12
    /\ px.minute \in 0..59

\* The label and the epoch the claim gives for the name: 'hh:mm X ET', and the
\* wall-clock time after 12 AM -> 0, 12 PM -> 12, other PM hours + 12.
ExpectedLabel ==
    Pad2(px.hour) \o <<":">> \o Pad2(px.minute)
    \o <<" ", MeridiemUpper(px.meridiem), " ", "ET">>

ExpectedHour ==
    IF MeridiemUpper(px.meridiem) = "AM"
    THEN (IF px.hour = 12 THEN 0 ELSE px.hour)
    ELSE (IF px.hour = 12 THEN 12 ELSE px.hour + 12)

ExpectedEpoch ==
    DaysFromCivil(px.date[1], px.date[2], px.date[3]) * 86400
    + ExpectedHour * 3600 + px.minute * 60 - px.out.utc_offset

AfterEpochDay ==
    \/ px.date[1] > 1970
    \/ px.date[1] = 1970 /\ (px.date[2] > 1 \/ px.date[3] >= 2)

Parseable(link) == parse_pdf_time_parts(link).ok /\ ValidDate(link.date)

\* prefer_link returns None for no candidates, else a candidate of maximal
\* timestamp, one on the mirror when a candidate of that timestamp is there.
PreferLinkTakesLatest ==
    px.op = "prefer" =>
        IF px.links = <<>> THEN px.result = NoUrl
        ELSE /\ \E i \in 1..Len(px.links) : px.links[i] = px.result
             /\ \A i \in 1..Len(px.links) :
                   /\ parse_pdf_datetime(px.links[i]) <= parse_pdf_datetime(px.result)
                   /\ (/\ parse_pdf_datetime(px.links[i]) = parse_pdf_datetime(px.result)
                       /\ OnMirror(px.links[i])) => OnMirror(px.result)

\* C16: prefer_link returns None for an empty candidate set, else a candidate
\* whose timestamp is maximal, on the CDN mirror when a candidate tied on that
\* timestamp is; and every candidate whose timestamp cannot be parsed (0) is
\* ranked below every candidate whose timestamp can.
C16_UnparseableRanksLast ==
    /\ PreferLinkTakesLatest
    /\ px.op = "prefer" =>
          \A i, j \in 1..Len(px.ranked) :
              (Parseable(px.ranked[i]) /\ ~Parseable(px.ranked[j])) => i < j
(***************************************************************************)
(* Part VI.  The fetcher                                                   *)
(*                                                                         *)
(* fetch_with_retry and fetch_pdf_with_retry, one step per iteration of    *)
(* their loop; net.log lists the requests sent and the sleeps made.        *)
(***************************************************************************)

\* The greatest `retries` argument (the callers pass 3, the defaults are 2 and 3).
MaxRetries == 3

\* What a request to the target URL meets: a 200 response, a 403 response,
\* another error status, or an exception of the session (timeout, connection).
UrlAnswers == {"ok", "403", "500", "timeout"}
\* What the warm-up request to OFFICIAL_PAGE meets: any response, or an exception.
PageAnswers == {"ok", "timeout"}

\* last_error = None, and an exception: what failed, and in which iteration.
NoError == [kind |-> "None", attempt |-> -1, target |-> ""]
ErrorOf(kind, attempt, target) == [kind |-> kind, attempt |-> attempt, target |-> target]

\* The entries of the log.
GetEvent(target, attempt, answer) ==
    [ev |-> "get", target |-> target, attempt |-> attempt, answer |-> answer, k |-> 0]
\* time.sleep(delay * (attempt + 1))
SleepEvent(attempt) ==
    [ev |-> "sleep", target |-> "", attempt |-> attempt, answer |-> "", k |-> attempt + 1]

\* raise last_error: `raise None` is a TypeError
Raised_last_error(last_error) ==
    IF last_error = NoError THEN ErrorOf("TypeError", -1, "") ELSE last_error

\* The end of an iteration that did not return: the next iteration, or after
\* the last one `raise last_error`.
NextAttempt(n) ==
    IF n.attempt = n.retries
    THEN [n EXCEPT !.stage = "raised", !.out = Raised_last_error(n.last_error)]
    ELSE [n EXCEPT !.attempt = @ + 1]

\* except Exception as exc: last_error = exc; if attempt < retries: time.sleep(...)
Caught(n, exc) ==
    NextAttempt([n EXCEPT !.last_error = exc,
                          !.log = IF n.attempt < n.retries
                                  THEN Append(@, SleepEvent(n.attempt)) ELSE @])

\* return response
Returns(n, answer) ==
    [n EXCEPT !.stage = "returned", !.out = ErrorOf(answer, n.attempt, "response")]

\* One iteration of fetch_with_retry: raise_for_status turns every error
\* status, 403 included, into an exception.
FetchAttempt(n, answer) ==
    IF answer = "ok"
    THEN Returns([n EXCEPT !.log = Append(@, GetEvent("url", n.attempt, answer))], answer)
    ELSE Caught([n EXCEPT !.log = Append(@, GetEvent("url", n.attempt, answer))],
                ErrorOf(answer, n.attempt, "url"))

\* One iteration of fetch_pdf_with_retry: a 403 response is answered by a
\* request to OFFICIAL_PAGE, a sleep and `continue`, with last_error untouched.
PdfAttemptNoWarmUp(n, answer, warm) ==
    IF answer = "ok"
    THEN Returns([n EXCEPT !.log = Append(@, GetEvent("url", n.attempt, answer))], answer)
    ELSE IF answer = "403"
    THEN NextAttempt([n EXCEPT !.log = @ \o <<GetEvent("url", n.attempt, answer),
                                              SleepEvent(n.attempt)>>])
    ELSE Caught([n EXCEPT !.log = Append(@, GetEvent("url", n.attempt, answer))],
                ErrorOf(answer, n.attempt, "url"))

PdfAttempt(n, answer, warm) ==
    IF answer = "ok"
    THEN Returns([n EXCEPT !.log = Append(@, GetEvent("url", n.attempt, answer))], answer)
    ELSE IF answer = "403"
    THEN IF warm = "ok"
         THEN NextAttempt([n EXCEPT !.log = @ \o <<GetEvent("url", n.attempt, answer),
                                                   GetEvent("page", n.attempt, warm),
                                                   SleepEvent(n.attempt)>>])
         ELSE Caught([n EXCEPT !.log = @ \o <<GetEvent("url", n.attempt, answer),
                                              GetEvent("page", n.attempt, warm)>>],
                     ErrorOf(warm, n.attempt, "page"))
    ELSE Caught([n EXCEPT !.log = Append(@, GetEvent("url", n.attempt, answer))],
                ErrorOf(answer, n.attempt, "url"))

\* The locals of a call before its first iteration.
LoopStart(fn, retries) ==
    [stage |-> "running", fn |-> fn, retries |-> retries, attempt |-> 0,
     log |-> <<>>, last_error |-> NoError, out |-> NoError]

\* A call of one of the two functions.
StartFetch(fn, retries) ==
    /\ net.stage = "idle"
    /\ net' = LoopStart(fn, retries)
    /\ UNCHANGED cacheVars
    /\ UNCHANGED <<dd, nz, px>>

FetchStep(answer) ==
    /\ net.stage = "running"
    /\ net.fn = "fetch_with_retry"
    /\ net' = FetchAttempt(net, answer)
    /\ UNCHANGED cacheVars
    /\ UNCHANGED <<dd, nz, px>>

PdfStep(answer, warm) ==
    /\ net.stage = "running"
    /\ net.fn = "fetch_pdf_with_retry"
    /\ net' = PdfAttempt(net, answer, warm)
    /\ UNCHANGED cacheVars
    /\ UNCHANGED <<dd, nz, px>>

RetryNext ==
    \/ \E fn \in {"fetch_with_retry", "fetch_pdf_with_retry"}, retries \in 0..MaxRetries :
          StartFetch(fn, retries)
    \/ \E answer \in UrlAnswers : FetchStep(answer)
    \/ \E answer \in UrlAnswers, warm \in PageAnswers : PdfStep(answer, warm)

RetrySpec == Init /\ [][RetryNext]_vars
---------------------------------------------------------------------------
\* Claims about the retry loops.

\* The positions in the log of the requests to the target URL.
UrlGets == {i \in 1..Len(net.log) : net.log[i].ev = "get" /\ net.log[i].target = "url"}

\* At most retries + 1 requests go to the target URL, the loop does not run
\* past its last iteration, and between the failed request of iteration a
\* (the k-th attempt, k = a + 1) and the next request lies a sleep of delay x k.
RetryLoopBounded ==
    net.stage # "idle" =>
        /\ Cardinality(UrlGets) <= net.retries + 1
        /\ net.attempt <= net.retries
        /\ \A i, j \in UrlGets :
              net.log[j].attempt = net.log[i].attempt + 1 =>
                  \E s \in (i + 1)..(j - 1) :
                      net.log[s].ev = "sleep" /\ net.log[s].k = net.log[i].attempt + 1

\* The exception raised after the last iteration is the one that iteration caught.
RaisesErrorOfLastAttempt ==
    net.stage = "raised" => net.out.attempt = net.retries

\* fetch_with_retry raises the error of its last attempt.
FetchRaisesErrorOfLastAttempt ==
    net.stage # "idle" /\ net.fn = "fetch_with_retry" => RaisesErrorOfLastAttempt

\* C17: fetch_with_retry and fetch_pdf_with_retry each send at most
\* retries + 1 requests to the target URL, sleep delay x k after the k-th
\* failed attempt before the next one, stop, and when every attempt failed
\* raise the error of the last failed attempt, also when the attempts of
\* fetch_pdf_with_retry failed with HTTP 403.
C17_RetriesThenRaisesLastError ==
    /\ RetryLoopBounded
    /\ RaisesErrorOfLastAttempt
\* The position of the first request after position i, 0 if there is none.
NextGet(i) ==
    LET later == {j \in (i + 1)..Len(net.log) : net.log[j].ev = "get"}
    IN  IF later = {} THEN 0 ELSE CHOOSE j \in later : \A k \in later : j <= k

\* C18: in fetch_pdf_with_retry every 403 response to a document request is
\* followed by a request to the source page before any further document
\* request, a 403 response is never returned to the caller, and after a
\* failure other than 403 the next request, if any, is the document again.
C18_WarmUpAfterEvery403 ==
    (net.stage # "idle" /\ net.fn = "fetch_pdf_with_retry") =>
        /\ \A i \in UrlGets :
              /\ net.log[i].answer = "403" =>
                    NextGet(i) # 0 /\ net.log[NextGet(i)].target = "page"
              /\ (net.log[i].answer \in {"500", "timeout"} /\ NextGet(i) # 0) =>
                    net.log[NextGet(i)].target = "url"
        /\ net.stage = "returned" =>
              /\ net.out.kind = "ok"
              /\ net.log[Len(net.log)] = GetEvent("url", net.attempt, "ok")

\* A document is returned after an error status was retried without a visit
\* to the page and a 403 response was retried after one.
C18_Witness ==
    /\ net.stage = "returned"
    /\ net.fn = "fetch_pdf_with_retry"
    /\ Len(net.log) = 6
    /\ net.log[1].answer = "500" /\ net.log[3].answer = "403"
    /\ net.log[4].target = "page" /\ net.log[6].answer = "ok"
---------------------------------------------------------------------------
\* fetch_injury_report, one step per call of the link resolver, per iteration
\* of a document fetch, and for the parsing of the document.

\* fetch_pdf_with_retry(..., retries=3)
DocumentRetries == 3

\* What fetch_latest_pdf_link gives the run: it raises, finds nothing, finds a
\* link on the official host, or finds one that is on the mirror already.
RunLinks ==
    {[kind |-> "raise", url |-> NoUrl], [kind |-> "none", url |-> NoUrl],
     [kind |-> "found", url |-> UrlEarly],
     [kind |-> "found", url |-> fallback_pdf_url(UrlEarly)]}

NoLoop == [stage |-> "none"]

\* The end of the run: what fetch_injury_report returns or raises.
RunEnds(run, fetch, nrows, exc) ==
    [run EXCEPT !.phase = "done", !.fetch = fetch, !.exc = exc, !.nrows = nrows,
                !.result = fetch_injury_report([link |-> run.link, fetch |-> fetch,
                                                nrows |-> nrows])]

\* latest = fetch_latest_pdf_link(session=session); if not latest: return {...}
StartRun(link) ==
    /\ net.stage = "idle"
    /\ net' = IF link.kind = "found"
              THEN [stage |-> "run", phase |-> "primary", link |-> link, fetch |-> "",
                    loop |-> LoopStart("fetch_pdf_with_retry", DocumentRetries),
                    primary |-> NoLoop, mirror |-> NoLoop, mirror_calls |-> 0,
                    parsed |-> FALSE, nrows |-> 0, exc |-> NoError, result |-> Raised]
              ELSE RunEnds([stage |-> "run", phase |-> "link", link |-> link, fetch |-> "",
                            loop |-> NoLoop, primary |-> NoLoop, mirror |-> NoLoop,
                            mirror_calls |-> 0, parsed |-> FALSE, nrows |-> 0,
                            exc |-> NoError, result |-> Raised],
                           "fail", 0,
                           IF link.kind = "raise"
                           THEN ErrorOf("timeout", DocumentRetries, "page")
                           ELSE NoError)
    /\ UNCHANGED cacheVars
    /\ UNCHANGED <<dd, nz, px>>

\* After an iteration of the primary fetch: the document, the next iteration,
\* or the except branch with fallback_url.
AfterPrimaryAlwaysMirror(run, loop) ==
    IF loop.stage = "returned"
    THEN [run EXCEPT !.phase = "parse", !.fetch = "primary", !.primary = loop, !.loop = NoLoop]
    ELSE IF loop.stage = "running" THEN [run EXCEPT !.loop = loop]
    ELSE [run EXCEPT !.phase = "mirror", !.primary = loop, !.mirror_calls = @ + 1,
                     !.loop = LoopStart("fetch_pdf_with_retry", DocumentRetries)]

AfterPrimary(run, loop) ==
    IF loop.stage = "returned"
    THEN [run EXCEPT !.phase = "parse", !.fetch = "primary", !.primary = loop, !.loop = NoLoop]
    ELSE IF loop.stage = "running" THEN [run EXCEPT !.loop = loop]
    ELSE IF fallback_pdf_url(run.link.url) = run.link.url
    THEN RunEnds([run EXCEPT !.primary = loop, !.loop = NoLoop], "fallback", 0, loop.out)
    ELSE [run EXCEPT !.phase = "mirror", !.primary = loop, !.mirror_calls = @ + 1,
                     !.loop = LoopStart("fetch_pdf_with_retry", DocumentRetries)]

\* After an iteration of the fetch of fallback_url, which is outside any try.
AfterMirror(run, loop) ==
    IF loop.stage = "returned"
    THEN [run EXCEPT !.phase = "parse", !.fetch = "fallback", !.mirror = loop, !.loop = NoLoop]
    ELSE IF loop.stage = "running" THEN [run EXCEPT !.loop = loop]
    ELSE RunEnds([run EXCEPT !.mirror = loop, !.loop = NoLoop], "fail", 0, loop.out)

PrimaryStep(answer, warm) ==
    /\ net.stage = "run"
    /\ net.phase = "primary"
    /\ net' = AfterPrimary(net, PdfAttempt(net.loop, answer, warm))
    /\ UNCHANGED cacheVars
    /\ UNCHANGED <<dd, nz, px>>

MirrorStep(answer, warm) ==
    /\ net.stage = "run"
    /\ net.phase = "mirror"
    /\ net' = AfterMirror(net, PdfAttempt(net.loop, answer, warm))
    /\ UNCHANGED cacheVars
    /\ UNCHANGED <<dd, nz, px>>

\* The document is parsed and reconciled into nrows rows.
ParseStep(nrows) ==
    /\ net.stage = "run"
    /\ net.phase = "parse"
    /\ net' = RunEnds([net EXCEPT !.parsed = TRUE], net.fetch, nrows, NoError)
    /\ UNCHANGED cacheVars
    /\ UNCHANGED <<dd, nz, px>>

\* Saving or opening the document raises (os, pdfplumber): nothing catches it.
ParseRaises ==
    /\ net.stage = "run"
    /\ net.phase = "parse"
    /\ net' = RunEnds(net, "fail", 0, ErrorOf("document", 0, "document"))
    /\ UNCHANGED cacheVars
    /\ UNCHANGED <<dd, nz, px>>

RunNext ==
    \/ \E link \in RunLinks : StartRun(link)
    \/ \E answer \in UrlAnswers, warm \in PageAnswers : PrimaryStep(answer, warm)
    \/ \E answer \in UrlAnswers, warm \in PageAnswers : MirrorStep(answer, warm)
    \/ \E nrows \in 0..1 : ParseStep(nrows)
    \/ ParseRaises

RunSpec == Init /\ [][RunNext]_vars
---------------------------------------------------------------------------
\* Claims about fetch_injury_report.

\* The requests a finished or running fetch sent to its URL.
UrlGetsOf(loop) ==
    {i \in 1..Len(loop.log) : loop.log[i].ev = "get" /\ loop.log[i].target = "url"}

MirrorStarted == net.phase = "mirror" \/ net.mirror # NoLoop

\* C19: in one pipeline run the mirror URL is fetched by at most one call of
\* fetch_pdf_with_retry, begun only after the fetch of the primary URL has
\* failed retries + 1 times and raised; when the mirror URL equals the primary
\* URL the error of the primary fetch is raised and nothing more is fetched;
\* when the mirror fetch fails too its error is raised to the caller and no
\* payload is returned.
C19_MirrorOnceAfterPrimaryFails ==
    net.stage = "run" =>
        /\ net.mirror_calls <= 1
        /\ MirrorStarted =>
              /\ net.mirror_calls = 1
              /\ net.primary # NoLoop
              /\ net.primary.stage = "raised"
              /\ Cardinality(UrlGetsOf(net.primary)) = DocumentRetries + 1
              /\ \A i \in UrlGetsOf(net.primary) : net.primary.log[i].answer # "ok"
              /\ fallback_pdf_url(net.link.url) # net.link.url
        /\ (/\ net.primary # NoLoop
            /\ net.primary.stage = "raised"
            /\ fallback_pdf_url(net.link.url) = net.link.url) =>
              /\ net.phase = "done"
              /\ net.result = Raised
              /\ net.exc = net.primary.out
              /\ ~MirrorStarted
        /\ (net.mirror # NoLoop /\ net.mirror.stage = "raised") =>
              /\ net.phase = "done"
              /\ net.result = Raised
              /\ net.exc = net.mirror.out

\* The primary fetch met 403 four times, the mirror fetch then failed as
\* well, and the run raised the mirror's error.
C19_Witness ==
    /\ net.stage = "run"
    /\ net.phase = "done"
    /\ net.mirror # NoLoop
    /\ net.mirror.stage = "raised"
    /\ net.exc = ErrorOf("500", DocumentRetries, "url")
    /\ \A i \in UrlGetsOf(net.primary) : net.primary.log[i].answer = "403"
    /\ net.result = Raised
\* The run has ended, with a payload of the given step (not with an exception).
Failed(step) ==
    /\ net.phase = "done"
    /\ ~net.result.raised
    /\ ~net.result.payload.ok
    /\ net.result.payload.step = step

\* A fetch that returned the document: its last request is the one answered.
Fetched(loop) ==
    /\ loop # NoLoop
    /\ loop.stage = "returned"
    /\ loop.log[Len(loop.log)].answer = "ok"

\* C20: fetch_injury_report returns ok = false with step "parse_links"
\* exactly when the link resolver finds no document, and then no document
\* request is made; it returns ok = false with step "parse_pdf" exactly when
\* a document was fetched and reconciliation emitted no row; a failure payload
\* has an error text and one of these two steps, an ok payload has meta, stats
\* and at least one row; after either failure the run ends, with no
\* further request.
C20_FailurePayloads ==
    (net.stage = "run" /\ net.phase = "done") =>
        /\ Failed("parse_links") <=> net.link.kind = "none"
        /\ Failed("parse_links") => (net.primary = NoLoop /\ net.mirror = NoLoop)
        /\ Failed("parse_pdf") <=> (net.parsed /\ net.nrows = 0)
        /\ Failed("parse_pdf") =>
              /\ net.loop = NoLoop
              /\ (Fetched(net.primary) /\ net.mirror = NoLoop) \/ Fetched(net.mirror)
        /\ (~net.result.raised /\ ~net.result.payload.ok) =>
              /\ {"error", "step"} \subseteq net.result.payload.keys
              /\ net.result.payload.error # ""
              /\ net.result.payload.step \in {"parse_links", "parse_pdf"}
        /\ (~net.result.raised /\ net.result.payload.ok) =>
              /\ {"meta", "stats", "rows"} \subseteq net.result.payload.keys
              /\ net.result.payload.nrows > 0
              /\ net.parsed

\* The document came from the mirror and gave no row.
C20_Witness ==
    /\ net.stage = "run"
    /\ Failed("parse_pdf")
    /\ net.fetch = "fallback"
    /\ Fetched(net.mirror)
    /\ net.result.payload.error = "PDF loaded but no usable rows."

(***************************************************************************)
(* Part VII.  The merge rule of deduplicate_rows, row by row               *)
(***************************************************************************)

\* deduplicate_rows applied to a kept row followed by one incoming row, the
\* fields of both drawn from empty, whitespace-only and filled values.
MergeTeams == {Empty, Txt(Blank), Txt("Miami Heat"), Txt("MIAMI HEAT")}
MergeTimes == {Empty, Txt(Blank), Txt("07:00 (ET)")}
MergeStatuses == {Empty, Txt("Out")}
MergeMatchups == {Empty, Txt("MIA@WAS")}
\* No reason, a clean one, one that contains it, a leaked "Last, First Out",
\* and a reason that mentions a matchup code.
MergeReasons ==
    {Empty, Txt("Knee"), <<"Soreness", "Knee">>, <<"James, LeBron", "Out">>,
     <<"Knee", "mia@was">>}

MergeRows(rowIndex) ==
    {RowOf(tm, matchup, team, Txt("Curry, Seth"), status, reason, 1, rowIndex) :
        tm \in MergeTimes, matchup \in MergeMatchups, team \in MergeTeams,
        status \in MergeStatuses, reason \in MergeReasons}

\* deduplicate_rows([existing, row])
MergePair(existing, row) ==
    /\ dd.stage = "input" /\ dd.rows = <<>>
    /\ dd' = [dd EXCEPT !.stage = "merged", !.rows = <<existing, row>>,
                        !.out = deduplicate_rows(<<existing, row>>)]
    /\ UNCHANGED cacheVars
    /\ UNCHANGED <<px, net>>
    /\ UNCHANGED nz

\* One call per behaviour.
MergeNext ==
    /\ dd.stage = "input"
    /\ \E existing \in MergeRows(0), row \in MergeRows(1) : MergePair(existing, row)

MergeSpec == Init /\ [][MergeNext]_vars

\* The incoming row met a kept row of its key.
SameKeyMet ==
    /\ dd.stage = "merged"
    /\ Keyed(dd.rows[1])
    /\ RowKey(dd.rows[1]) = RowKey(dd.rows[2])

NoisyReason(row) ==
    Strip(row.reason) # <<>> /\ Matches(Strip(row.reason), "noisy_reason_regex")

\* What the merge rule makes of the kept reason.
MergedReason(existing, row) ==
    IF NoisyReason(row) THEN existing.reason
    ELSE IF Strip(row.reason) # <<>> /\ ~Contains(Strip(existing.reason), Strip(row.reason))
    THEN Join(Strip(existing.reason), Strip(row.reason))
    ELSE existing.reason

\* A field of the kept row after back-filling from the incoming row.
BackFilled(existing, row, field) ==
    IF existing[field] = <<>> THEN row[field] ELSE existing[field]

MergeFields == {"status", "matchup", "gameTime", "team"}

\* The merge rule holds for the reason in every case, and the back-fill holds
\* whenever the incoming reason is not noisy.
MergeRuleUnlessNoisy ==
    SameKeyMet =>
        /\ Len(dd.out) = 1
        /\ dd.out[1].reason = MergedReason(dd.rows[1], dd.rows[2])
        /\ ~NoisyReason(dd.rows[2]) =>
              \A field \in MergeFields :
                  dd.out[1][field] = BackFilled(dd.rows[1], dd.rows[2], field)

\* A noisy incoming row is dropped whole: the kept row stays as it was.
NoisyIncomingLeavesKeptRow ==
    (SameKeyMet /\ NoisyReason(dd.rows[2])) => dd.out = <<dd.rows[1]>>

\* C21: when an incoming row has the key of a kept row, a noisy incoming
\* reason is not merged into the kept reason, a non-noisy one that is no
\* substring of the kept reason is appended to it, one that is a substring
\* leaves it unchanged, and in every such merge each of status, matchup,
\* gameTime and team that is empty on the kept row is filled from the incoming
\* row.
C21_MergeRule ==
    SameKeyMet =>
        /\ Len(dd.out) = 1
        /\ dd.out[1].reason = MergedReason(dd.rows[1], dd.rows[2])
        /\ \A field \in MergeFields :
              dd.out[1][field] = BackFilled(dd.rows[1], dd.rows[2], field)

(***************************************************************************)
(* Part VIII.  The carryover of normalize_rows                             *)
(***************************************************************************)

\* Player rows of two teams (and rows without a team) on two pages, whose
\* reasons hold no, one or two reason prefixes.
CarryTeams == {Txt("Miami Heat"), Txt("Boston Celtics"), <<>>}
CarryPages == {1, 2}
CarryReasons ==
    {<<>>, Txt("Soreness"), <<"Injury/Illness", "Knee", "G League">>,
     <<"Knee", "Injury/Illness", "Soreness", "G League">>}

CarryRows ==
    {RowOf(Txt("07:00 (ET)"), Txt("MIA@WAS"), team, Txt("Curry, Seth"), Txt("Out"),
           reason, page, 0) :
        team \in CarryTeams, page \in CarryPages, reason \in CarryReasons}

NormalizeCarryRow(row) ==
    /\ nz.n < MaxNormRows
    /\ nz' = NormAfter(nz, [row EXCEPT !.rowIndex = nz.n + 1])
    /\ UNCHANGED cacheVars
    /\ UNCHANGED <<px, net>>
    /\ UNCHANGED dd

NormCarryNext == \E row \in CarryRows : NormalizeCarryRow(row)

NormCarrySpec == Init /\ [][NormCarryNext]_vars

\* The token indices of the reason prefixes in a text.
PrefixPositions(text) == {i \in 1..Len(text) : text[i] \in ReasonPrefixesAnyCase}

SecondPrefix(text) == Min(PrefixPositions(text) \ {Min(PrefixPositions(text))})

\* The accepted reason of the last row holds a reason prefix twice.
HasSecondPrefix == Cardinality(PrefixPositions(nz.last.carry.accepted)) >= 2

\* The reason of the last row was cut at the second prefix and the tail is
\* held for its page.
CutAtSecondPrefix ==
    /\ LastEmitted.reason =
           SubSeq(nz.last.carry.accepted, 1, SecondPrefix(nz.last.carry.accepted) - 1)
    /\ nz.last.carry.page \in DOMAIN nz.st.carryover_reason_by_page
    /\ nz.st.carryover_reason_by_page[nz.last.carry.page] =
           SubSeq(nz.last.carry.accepted, SecondPrefix(nz.last.carry.accepted),
                  Len(nz.last.carry.accepted))

\* The tail a row takes was split from a row of its own team (a row that
\* has no team, its own or inherited, counts as of any team).
TailTakenFromOwnTeam ==
    nz.last.carry.taken =>
        /\ nz.last.carry.from # <<>>
        /\ \/ nz.last.carry.from[1] = <<>>
           \/ nz.last.carry.team = <<>>
           \/ nz.last.carry.from[1] = nz.last.carry.team

\* A reason that starts with its first prefix is cut at the second.
CutAtSecondPrefixWhenFirstLeads ==
    (HasSecondPrefix /\ Min(PrefixPositions(nz.last.carry.accepted)) = 1) => CutAtSecondPrefix

\* A tail is taken only by a row of the page it was held for.
TailTakenOnItsPage ==
    nz.last.carry.taken => nz.last.carry.from # <<>>

\* C22: an accepted reason that contains a second occurrence of a reason
\* prefix is cut at that occurrence and the tail is held for the page; the
\* held tail is put before the reason of a row of the same page and of the
\* same team as the row it was split from, never before that of a row of
\* another team or another page.
C22_TailGoesToSameTeamAndPage ==
    /\ HasSecondPrefix => CutAtSecondPrefix
    /\ TailTakenFromOwnTeam

(***************************************************************************)
(* Part IX.  The three noise predicates, and the CSV validator             *)
(* (src/validate_injury_report_csv.py).                                    *)
(***************************************************************************)

MAX_REASON_LEN == 180

\* _is_contaminated_reason: PLAYER_STATUS_BLOB_RE, PAGE_MARKER_RE,
\* MATCHUP_BLOB_RE and DATE_OR_TIME_BLOB_RE are, character for character, the
\* four regular expressions of looks_like_player_blob.
is_contaminated_reason(reason) ==
    LET text == normalize_spaces(reason)
    IN  /\ text # <<>>
        /\ \/ Matches(text, "player_status_blob_regex")
           \/ Matches(text, "page_marker_regex")
           \/ Matches(text, "matchup_blob_regex")
           \/ Matches(text, "date_or_time_blob_regex")

\* new_reason and noisy_reason_regex.search(new_reason), new_reason being the
\* stripped reason.  Every blank in the expression is \s* or \s+, so a run of
\* whitespace inside the text matches as a single space does.
is_noisy_reason(reason) ==
    /\ Strip(reason) # <<>>
    /\ Matches(normalize_spaces(reason), "noisy_reason_regex")

\* The texts the predicates are compared on: at most MaxNoiseLen tokens.
MaxNoiseLen == 3

NoiseTokens ==
    {Blank, "Knee", "Curry, Seth", "Out", "Questionable", "Outlook", "MIA@WAS",
     "mia@was", "Page 1 of 3", "02/08/2026", "07:00 (ET)", "07:00 (ET)Miami"}

NoiseTexts == UNION {[1..n -> NoiseTokens] : n \in 0..MaxNoiseLen}

\* The verdicts of the reconciler, the deduplicator and the validator on one text.
JudgeText(text) ==
    /\ px.op = "none"
    /\ px' = [op |-> "noise", text |-> text,
              blob |-> looks_like_player_blob(text),
              noisy |-> is_noisy_reason(text),
              contaminated |-> is_contaminated_reason(text)]
    /\ UNCHANGED cacheVars
    /\ UNCHANGED <<dd, nz, net>>

NoiseNext == \E text \in NoiseTexts : JudgeText(text)

NoiseSpec == Init /\ [][NoiseNext]_vars

\* What the validator flags the reconciler rejects.
ContaminatedIsBlob == px.op = "noise" => (px.contaminated => px.blob)

\* C23: on every string the reconciler's noise predicate, the
\* deduplicator's noisy-reason predicate and the validator's contamination
\* predicate give the same verdict.
C23_NoisePredicatesAgree ==
    px.op = "noise" => (px.blob = px.noisy /\ px.noisy = px.contaminated)

---------------------------------------------------------------------------
\* validate_csv.  A file is the set of its column names and the list of its
\* data rows; a row read by csv.DictReader is its six required fields, each
\* a text ("" for a missing column).

REQUIRED_COLUMNS == {"gameDate", "team", "player", "status", "reason", "page"}

Issue(level, code, row_number) ==
    [level |-> level, code |-> code, row_number |-> row_number]

\* result.errors, result.warnings, result.ok
errors(issues) == SelectSeq(issues, LAMBDA issue : issue.level = "ERROR")
warnings(issues) == SelectSeq(issues, LAMBDA issue : issue.level = "WARN")
ok(issues) == errors(issues) = <<>>

\* if cond: result.issues.append(issue)
IssueIf(cond, issue) == IF cond THEN <<issue>> ELSE <<>>

\* "NOT YET SUBMITTED" in combined, combined being the four fields in upper case
is_nys(team, player, status, reason) ==
    \E i \in 1..Len(team \o player \o status \o reason) :
        UpperTok((team \o player \o status \o reason)[i]) = NYS

\* reason.count("Injury/Illness")
CountInjuryIllness(reason) ==
    Cardinality({i \in 1..Len(reason) : reason[i] = "Injury/Illness"})

\* key = (game_date, team.upper(), player.upper(), status.upper(), page)
CsvKey(row) ==
    <<Strip(row.gameDate), Upper(Strip(row.team)), Upper(Strip(row.player)),
      Upper(Strip(row.status)), Strip(row.page)>>

\* if reason and _is_contaminated_reason(reason): ...
ContaminationIssue(reason, row_number) ==
    IssueIf(reason # <<>> /\ is_contaminated_reason(reason),
            Issue("ERROR", "REASON_CONTAMINATED", row_number))

\* The issues of one data row, in the order they are appended.
RowIssues(row, row_number, team, player, status, reason, seen_keys) ==
    IssueIf(~is_nys(team, player, status, reason) /\ team = <<>>,
            Issue("ERROR", "EMPTY_TEAM", row_number))
    \o IssueIf(~is_nys(team, player, status, reason) /\ player = <<>>,
               Issue("ERROR", "EMPTY_PLAYER", row_number))
    \o IssueIf(~is_nys(team, player, status, reason) /\ status = <<>>,
               Issue("ERROR", "EMPTY_STATUS", row_number))
    \o IssueIf(~is_nys(team, player, status, reason) /\ reason = <<>>,
               Issue("ERROR", "EMPTY_REASON", row_number))
    \o IssueIf(reason # <<>> /\ CharLen(reason) > MAX_REASON_LEN,
               Issue("ERROR", "REASON_TOO_LONG", row_number))
    \o ContaminationIssue(reason, row_number)
    \o IssueIf(CountInjuryIllness(reason) > 1,
               Issue("WARN", "MULTI_INJURY_SEGMENT", row_number))
    \o IssueIf(CsvKey(row) \in seen_keys,
               Issue("WARN", "DUPLICATE_PLAYER_ROW", row_number))

\* for row_number, row in enumerate(rows, start=2)
RECURSIVE ValidateRows(_, _, _, _)
ValidateRows(rows, i, issues, seen_keys) ==
    IF i > Len(rows) THEN issues
    ELSE ValidateRows(rows, i + 1,
                      issues \o RowIssues(rows[i], i + 1, Strip(rows[i].team),
                                          Strip(rows[i].player), Strip(rows[i].status),
                                          normalize_spaces(rows[i].reason), seen_keys),
                      seen_keys \cup {CsvKey(rows[i])})

\* if strict_warnings and result.warnings: every warning is repeated as an ERROR
StrictIssues(issues, strict_warnings) ==
    IF strict_warnings
    THEN issues \o [k \in 1..Len(warnings(issues)) |->
                       Issue("ERROR", "STRICT_" \o warnings(issues)[k].code,
                             warnings(issues)[k].row_number)]
    ELSE issues

\* validate_csv: the issues of the result (row_number 0 stands for None).
validate_csv(columns, rows, strict_warnings) ==
    IF REQUIRED_COLUMNS \ columns # {}
    THEN <<Issue("ERROR", "MISSING_COLUMNS", 0)>>
    ELSE IF rows = <<>> THEN <<Issue("ERROR", "EMPTY_FILE", 0)>>
    ELSE StrictIssues(ValidateRows(rows, 1, <<>>, {}), strict_warnings)

\* The files validated: at most MaxCsvRows data rows.
MaxCsvRows == 2

CsvRow(team, reason) ==
    [gameDate |-> Txt("02/08/2026"), team |-> team, player |-> Txt("Curry, Seth"),
     status |-> Txt("Out"), reason |-> reason, page |-> Txt("1")]

\* A reason of 184 characters.
LongReason == [k \in 1..37 |-> "Knee"]

CsvReasons ==
    {<<>>, Txt("Knee"), Txt(NYS), LongReason,
     <<"Knee", "Curry, Seth", "Out">>, <<"Knee", "Page 1 of 3">>,
     <<"Knee", "MIA@WAS">>, <<"Knee", "02/08/2026">>,
     <<"Knee", "07:00 (ET)">>, <<"Knee", "07:00 (ET)Miami">>,
     <<"Injury/Illness", "Knee", "Injury/Illness">>}

CsvRows == {CsvRow(team, reason) : team \in {Txt("Miami Heat"), <<>>}, reason \in CsvReasons}

CsvFiles == UNION {[1..n -> CsvRows] : n \in 0..MaxCsvRows}

CsvColumnSets == {REQUIRED_COLUMNS, REQUIRED_COLUMNS \ {"reason"}}

ValidateCsv(columns, rows, strict_warnings) ==
    /\ px.op = "none"
    /\ px' = [op |-> "validate", columns |-> columns, rows |-> rows,
              strict_warnings |-> strict_warnings,
              issues |-> validate_csv(columns, rows, strict_warnings),
              ok |-> ok(validate_csv(columns, rows, strict_warnings))]
    /\ UNCHANGED cacheVars
    /\ UNCHANGED <<dd, nz, net>>

ValidateNext ==
    \E columns \in CsvColumnSets, rows \in CsvFiles, strict_warnings \in BOOLEAN :
        ValidateCsv(columns, rows, strict_warnings)

ValidateSpec == Init /\ [][ValidateNext]_vars

\* A file with all required columns was validated.
Validated == px.op = "validate" /\ REQUIRED_COLUMNS \subseteq px.columns

Recorded_issue(issue) == \E k \in 1..Len(px.issues) : px.issues[k] = issue

\* The reason holds a "Last, First <status>" fragment, a page marker, a
\* matchup code, or a date or a time.
HasFragment(reason) ==
    \E i \in 1..Len(reason) :
        \/ reason[i] \in CommaNames /\ i < Len(reason) /\ reason[i + 1] \in StatusTokens
        \/ reason[i] \in PageMarkers
        \/ reason[i] \in MatchupCodesUpper
        \/ reason[i] \in DateTokens \cup TimeTokens \cup GluedTimeTokens

\* Every row whose reason the validator's expressions match is reported, and
\* ok is the absence of errors.
ContaminatedRowsReported ==
    Validated =>
        /\ \A i \in 1..Len(px.rows) :
              is_contaminated_reason(px.rows[i].reason) =>
                  /\ Recorded_issue(Issue("ERROR", "REASON_CONTAMINATED", i + 1))
                  /\ ~px.ok
        /\ px.ok <=> (\A k \in 1..Len(px.issues) : px.issues[k].level # "ERROR")

\* C24: validate_csv, on a file with all required columns, records an ERROR
\* issue REASON_CONTAMINATED and yields ok = false for every data row whose
\* reason holds a "Last, First <status>" fragment, a page marker, a matchup
\* code or a date/time token; ok is true exactly when no ERROR issue was
\* recorded.
C24_ContaminatedRowsFail ==
    Validated =>
        /\ \A i \in 1..Len(px.rows) :
              HasFragment(px.rows[i].reason) =>
                  /\ Recorded_issue(Issue("ERROR", "REASON_CONTAMINATED", i + 1))
                  /\ ~px.ok
        /\ px.ok <=> (\A k \in 1..Len(px.issues) : px.issues[k].level # "ERROR")

(***************************************************************************)
(* Part X.  Header rows, continuation fragments and reason-only rows of    *)
(* normalize_rows                                                          *)
(***************************************************************************)

\* A report timestamp as the page header prints it.
ReportTimestamps == {"02/08/26 05:30 PM"}

\* Rows with a report title or a team in the team field, and a report
\* timestamp, a player or nothing in the player field.
HeaderTeams == {Txt("Injury Report"), <<Blank, "INJURY REPORT">>, Txt("Miami Heat"), <<>>}
HeaderPlayers ==
    {Txt("02/08/26 05:30 PM"), Txt("\\dd/\\dd/\\dd\\s\\dd:\\dd\\AM"), Txt("Curry, Seth"), <<>>}

HeaderRows ==
    {RowOf(tm, Txt("MIA@WAS"), team, player, status, Txt("Knee"), 1, 0) :
        tm \in {Txt("07:00 (ET)"), Txt("08:30 (ET)")}, team \in HeaderTeams,
        player \in HeaderPlayers, status \in {Txt("Out"), <<>>}}

NormalizeHeaderRow(row) ==
    /\ nz.n < MaxNormRows
    /\ nz' = NormAfter(nz, [row EXCEPT !.rowIndex = nz.n + 1])
    /\ UNCHANGED cacheVars
    /\ UNCHANGED <<px, net>>
    /\ UNCHANGED dd

NormHeaderNext == \E row \in HeaderRows : NormalizeHeaderRow(row)

NormHeaderSpec == Init /\ [][NormHeaderNext]_vars

\* The team field of the row just read starts with the report title.
TitleInTeam(last) == last.team # <<>> /\ last.team[1] \in HeaderTitleTokens

\* The player field of the row just read is a report timestamp.
TimestampInPlayer(last) == last.player # <<>> /\ last.player[1] \in ReportTimestamps

\* A row whose team field starts with the report title is dropped and leaves
\* the loop state as it was.
TitleRowsDropped ==
    [][TitleInTeam(nz'.last) => (nz'.last.path = "header" /\ nz'.st = nz.st)]_vars

\* C26: a row whose team field starts with the report title, or whose player
\* field is a report timestamp MM/DD/YY HH:MM AM|PM, is dropped, never
\* emitted, and leaves the rolling context (last team, matchup, times)
\* unchanged.
C26_HeaderRowsDropped ==
    [][(TitleInTeam(nz'.last) \/ TimestampInPlayer(nz'.last)) =>
          /\ nz'.st.normalized = nz.st.normalized
          /\ nz'.st.last_team = nz.st.last_team
          /\ nz'.st.last_matchup = nz.st.last_matchup
          /\ nz'.st.last_game_time = nz.st.last_game_time
          /\ nz'.st.last_real_game_time = nz.st.last_real_game_time
          /\ nz'.st.game_time_by_matchup = nz.st.game_time_by_matchup]_vars

---------------------------------------------------------------------------
\* Player rows followed by reason-only fragments: of the same team (written
\* the same way, or padded), of another team or of none, on the same page or
\* the next, clean or carrying a matchup code.
FragmentTeams == {<<>>, Txt("Miami Heat"), Txt("Boston Celtics")}
FragmentReasons ==
    {Txt("Soreness"), Txt("knee"), <<"knee", ";">>, <<"knee", "MIA@WAS">>}

FragmentRows ==
    {RowOf(Txt("07:00 (ET)"), Txt("MIA@WAS"), team, Txt("Curry, Seth"), Txt("Out"),
           reason, 1, 0) :
        team \in {Txt("Miami Heat"), <<"Miami Heat", Blank>>},
        reason \in {Txt("Recovery"), Txt("Knee")}}
    \cup {RowOf(<<>>, <<>>, team, <<>>, <<>>, reason, page, 0) :
             team \in FragmentTeams, reason \in FragmentReasons, page \in 1..2}

NormalizeFragmentRow(row) ==
    /\ nz.n < MaxNormRows
    /\ nz' = NormAfter(nz, [row EXCEPT !.rowIndex = nz.n + 1])
    /\ UNCHANGED cacheVars
    /\ UNCHANGED <<px, net>>
    /\ UNCHANGED dd

NormFragmentNext == \E row \in FragmentRows : NormalizeFragmentRow(row)

NormFragmentSpec == Init /\ [][NormFragmentNext]_vars

\* A row that has a reason and neither a player nor a status.
IsFragment(row) == row.player = <<>> /\ row.status = <<>> /\ row.reason # <<>>

\* The team a row without a player belongs to: its own, else the last one seen.
FragmentTeam(st, row) == IF Strip(row.team) = <<>> THEN st.last_team ELSE row.team

\* The row follows, on the same page and for the same team, a row that was
\* emitted by the iteration before it.
FollowsEmittedRow(z, row) ==
    /\ z.last.path \in {"emitted", "sentinel"}
    /\ z.st.normalized[Len(z.st.normalized)].page = row.page
    /\ \/ FragmentTeam(z.st, row) = <<>>
       \/ z.st.normalized[Len(z.st.normalized)].team = FragmentTeam(z.st, row)

\* The emitted rows, with `text` appended to the reason of the last one.
WithAppended(normalized, text) ==
    [normalized EXCEPT ![Len(normalized)].reason = Join(@, text)]

\* Neither the fragment as written nor its trimmed text is noise.
CleanFragment(row) ==
    /\ ~looks_like_player_blob(normalize_spaces(row.reason))
    /\ trim_reason_noise(row.reason) # <<>>
    /\ ~looks_like_player_blob(trim_reason_noise(row.reason))

ExportPlayers ==
    {<<>>, Txt("Curry, Seth"), Txt("Out"), Txt("Injury/Illness"),
     Txt("Return to Competition Reconditioning"),
     <<"Curry, Seth", Blank, "Injury/Illness">>, Txt(NYS)}
ExportStatuses == {<<>>, Txt("Out")}
ExportReasons == {<<>>, Txt("Knee")}

ExportInputRows ==
    {RowOf(Txt("07:00 (ET)"), Txt("MIA@WAS"), Txt("Miami Heat"), player, status,
           reason, 1, 0) :
        player \in ExportPlayers, status \in ExportStatuses, reason \in ExportReasons}

NormalizeExportRow(row) ==
    /\ nz.n < MaxNormRows
    /\ nz' = NormAfter(nz, [row EXCEPT !.rowIndex = nz.n + 1])
    /\ UNCHANGED cacheVars
    /\ UNCHANGED <<px, net>>
    /\ UNCHANGED dd

NormExportNext == \E row \in ExportInputRows : NormalizeExportRow(row)

NormExportSpec == Init /\ [][NormExportNext]_vars

\* df["reason"].str.contains("NOT YET SUBMITTED", case=False, na=False)
nys_mask(r) == Contains(Upper(r.reason), Txt(NYS))

\* (df["player"] == "") & (df["status"] == "")
empty_player_status(r) == r.player = <<>> /\ r.status = <<>>

\* df = df[~(empty_player_status & ~nys_mask)]
ExportFilter(rows) ==
    SelectSeq(rows, LAMBDA r : ~(empty_player_status(r) /\ ~nys_mask(r)))

\* The row goes through status and reason recovery (it is neither a title
\* row nor a sentinel row) and comes out of it with a reason only.
OnlyReasonAfterRecovery(row, ps, reason) ==
    /\ ~is_header_row(Strip(row.team), row.player)
    /\ Upper(Strip(row.player)) # Txt(NYS)
    /\ Upper(Strip(row.status)) # Txt(NYS)
    /\ RecoverReason(ps[1], reason)[1] = <<>>
    /\ ps[2] = <<>>
    /\ RecoverReason(ps[1], reason)[2] # <<>>

HasOnlyReason(row) ==
    OnlyReasonAfterRecovery(
        row, RecoverStatus(row.player, row.status),
        IF row.reason # <<>> THEN trim_reason_noise(row.reason) ELSE row.reason)

\* What becomes of a row with a reason only.
ReasonOnlyPaths ==
    {"reason_appended", "reason_pending", "reason_dropped", "reason_noise_dropped",
     "reason_blob_dropped"}

\* C30: every row emitted by normalize_rows has a non-empty player or a
\* non-empty status; a row left with a reason only after status and reason
\* recovery from the player field is appended to the previous emitted row,
\* held as pending or dropped and adds no row of its own; the export filter
\* of fetch_injury_report therefore removes none of the emitted rows.
C30_EmittedRowsHavePlayerOrStatus ==
    [][/\ \A i \in 1..Len(nz'.st.normalized) :
             \/ nz'.st.normalized[i].player # <<>>
             \/ nz'.st.normalized[i].status # <<>>
       /\ ExportFilter(nz'.st.normalized) = nz'.st.normalized
       /\ HasOnlyReason(nz'.last.row) =>
             /\ nz'.last.path \in ReasonOnlyPaths
             /\ Len(nz'.st.normalized) = Len(nz.st.normalized)]_vars

\* C30 witness: a row whose player field held only a reason was held as
\* pending, a row with a status and no player stands among the emitted rows,
\* and so does a sentinel row.
C30_Witness ==
    /\ nz.last.row.player = Txt("Injury/Illness")
    /\ nz.last.row.status = <<>>
    /\ nz.last.path = "reason_pending"
    /\ \E i \in 1..Len(nz.st.normalized) :
          nz.st.normalized[i].player = <<>> /\ nz.st.normalized[i].status = Txt("Out")
    /\ \E i \in 1..Len(nz.st.normalized) : IsSentinelRecord(nz.st.normalized[i])

====
